---- MODULE Spec2Model ----
(***************************************************************************)
(* Model of the benchmark evaluation engine of the model-interpretation    *)
(* dashboard backend: MetricsCalculator (backend/evaluation/metrics.py),   *)
(* BenchmarkRunner (backend/evaluation/benchmark_runner.py), Leaderboard   *)
(* (backend/evaluation/leaderboard.py), the connector lookup and add_model *)
(* of ModelManager (backend/models/model_manager.py) and the request       *)
(* handlers of backend/app.py that drive them.                             *)
(*                                                                         *)
(* Conventions.                                                            *)
(*  - A Python float is an exact rational [n |-> numerator, d |-> denom],  *)
(*    kept in lowest terms with d > 0 (floating point rounding is not      *)
(*    modelled).                                                           *)
(*  - A Python dict is a function with a domain of strings.  The dict      *)
(*    `results`, whose iteration order the summary depends on, is the      *)
(*    pair [order, data]: the keys in insertion order and the mapping.     *)
(*  - None is NoneStr where the value is otherwise a string and NoneRec    *)
(*    where it is otherwise a dict.                                        *)
(***************************************************************************)
EXTENDS Integers, Sequences, FiniteSets, TLC

\* ------------------------------------------------------------------ bounds
\* longest prompts list a caller passes
MaxPrompts == 2
\* longest model_ids list a caller passes
MaxModels == 2
\* number of request threads that may call the runner at the same time
MaxThreads == 2
\* number of run_benchmark calls a caller makes one after the other
MaxRuns == 3

\* ------------------------------------------------------- Python values
NoneStr == "<None>"
NoneRec == [none |-> TRUE]
EmptyDict == <<>>

Range(s) == {s[i] : i \in 1..Len(s)}

\* dict.get(key, default)
Get(dict, key, default) == IF key \in DOMAIN dict THEN dict[key] ELSE default

\* ------------------------------------------------------------ rationals
Abs(x) == IF x < 0 THEN -x ELSE x

RECURSIVE GCD(_, _)
GCD(a, b) == IF b = 0 THEN a ELSE GCD(b, a % b)

\* the rational n/d in lowest terms (d # 0)
R(n, d) ==
    LET g == GCD(Abs(n), Abs(d))
        s == IF d < 0 THEN -1 ELSE 1
    IN  [n |-> (s * n) \div g, d |-> (s * d) \div g]

RInt(k) == [n |-> k, d |-> 1]
Zero == RInt(0)
Hundred == RInt(100)

RAdd(a, b) == R(a.n * b.d + b.n * a.d, a.d * b.d)
RSub(a, b) == R(a.n * b.d - b.n * a.d, a.d * b.d)
RMul(a, b) == R(a.n * b.n, a.d * b.d)
\* a / b for b # 0
RDiv(a, b) == R(a.n * b.d, a.d * b.n)
RLt(a, b) == a.n * b.d < b.n * a.d
RLe(a, b) == a.n * b.d <= b.n * a.d
RMin(a, b) == IF RLe(a, b) THEN a ELSE b
RMax(a, b) == IF RLe(b, a) THEN a ELSE b

\* sum(), min(), max() of a list of numbers
RECURSIVE RSum(_)
RSum(s) == IF s = <<>> THEN Zero ELSE RAdd(Head(s), RSum(Tail(s)))

RECURSIVE RMinSeq(_)
RMinSeq(s) == IF Len(s) = 1 THEN s[1] ELSE RMin(Head(s), RMinSeq(Tail(s)))

RECURSIVE RMaxSeq(_)
RMaxSeq(s) == IF Len(s) = 1 THEN s[1] ELSE RMax(Head(s), RMaxSeq(Tail(s)))

\* ----------------------------------------------------------- str methods
IsSpace(c) == c = " "

\* len(s.split()): the number of maximal runs of non-whitespace characters
WordCount(s) ==
    Cardinality({i \in 1..Len(s) :
        /\ ~IsSpace(SubSeq(s, i, i))
        /\ (i = 1 \/ IsSpace(SubSeq(s, i - 1, i - 1)))})

\* len(s.split('.')): one more than the number of '.' characters
SplitDotCount(s) == Cardinality({i \in 1..Len(s) : SubSeq(s, i, i) = "."}) + 1

\* s.strip().endswith(c)
StripEndsWith(s, c) ==
    \E last \in 1..Len(s) :
        /\ SubSeq(s, last, last) = c
        /\ ~IsSpace(c)
        /\ \A j \in (last + 1)..Len(s) : IsSpace(SubSeq(s, j, j))

\* sub in s
Contains(s, sub) ==
    \E i \in 1..(Len(s) - Len(sub) + 1) : SubSeq(s, i, i + Len(sub) - 1) = sub

\* ------------------------------------------------------ MetricsCalculator
\* calculate_latency_score whose middle branch rises with the latency
calculate_latency_score_rising(latency) ==
    IF RLe(latency, RInt(1)) THEN Hundred
    ELSE IF RLe(RInt(10), latency) THEN Zero
    ELSE RMax(Zero, RDiv(RMul(Hundred, RSub(latency, RInt(1))), RInt(9)))

calculate_latency_score(latency) ==
    IF RLe(latency, RInt(1)) THEN Hundred
    ELSE IF RLe(RInt(10), latency) THEN Zero
    ELSE RMax(Zero, RDiv(RMul(Hundred, RSub(RInt(10), latency)), RInt(9)))

DefaultMaxCost == R(1, 10)

\* what a call that ended in an uncaught ZeroDivisionError gives
ZeroDivisionError == [raised |-> "ZeroDivisionError"]

\* calculate_cost_score without the early return for a cost of zero or less
calculate_cost_score_no_floor(cost, max_cost) ==
    IF max_cost = Zero THEN ZeroDivisionError
    ELSE LET normalized_cost == RMin(RDiv(cost, max_cost), RInt(1))
         IN  RMul(RSub(RInt(1), normalized_cost), Hundred)

\* calculate_cost_score without the cap of the normalized cost at 1.0
calculate_cost_score_no_cap(cost, max_cost) ==
    IF RLe(cost, Zero) THEN Hundred
    ELSE IF max_cost = Zero THEN ZeroDivisionError
    ELSE RMul(RSub(RInt(1), RDiv(cost, max_cost)), Hundred)

\* calculate_cost_score(cost, max_cost): cost / max_cost divides by zero
\* when max_cost is 0
calculate_cost_score(cost, max_cost) ==
    IF RLe(cost, Zero) THEN Hundred
    ELSE IF max_cost = Zero THEN ZeroDivisionError
    ELSE LET normalized_cost == RMin(RDiv(cost, max_cost), RInt(1))
         IN  RMul(RSub(RInt(1), normalized_cost), Hundred)

UpperCase == "ABCDEFGHIJKLMNOPQRSTUVWXYZ"
LowerCase == "abcdefghijklmnopqrstuvwxyz"

\* c.lower() of one character
LowerChar(c) ==
    IF \E i \in 1..Len(UpperCase) : SubSeq(UpperCase, i, i) = c
        THEN LET i == CHOOSE j \in 1..Len(UpperCase) : SubSeq(UpperCase, j, j) = c
             IN  SubSeq(LowerCase, i, i)
    ELSE c

\* s.lower()
RECURSIVE Lower(_)
Lower(s) ==
    IF Len(s) <= 1 THEN LowerChar(s)
    ELSE Lower(SubSeq(s, 1, Len(s) \div 2))
         \o Lower(SubSeq(s, Len(s) \div 2 + 1, Len(s)))

\* set(s.lower().split())
LowerWords(s) ==
    LET low == Lower(s)
        starts == {i \in 1..Len(low) :
                      /\ ~IsSpace(SubSeq(low, i, i))
                      /\ (i = 1 \/ IsSpace(SubSeq(low, i - 1, i - 1)))}
        EndOf(i) == CHOOSE j \in i..Len(low) :
                      /\ \A k \in i..j : ~IsSpace(SubSeq(low, k, k))
                      /\ (j = Len(low) \/ IsSpace(SubSeq(low, j + 1, j + 1)))
    IN  {SubSeq(low, i, EndOf(i)) : i \in starts}

\* _calculate_text_similarity(text1, text2): the Jaccard similarity of the
\* two sets of words
calculate_text_similarity(text1, text2) ==
    LET words1 == LowerWords(text1)
        words2 == LowerWords(text2)
    IN  IF words1 = {} /\ words2 = {} THEN RInt(1)
        ELSE IF words1 = {} \/ words2 = {} THEN Zero
        ELSE R(Cardinality(words1 \cap words2), Cardinality(words1 \cup words2))

\* calculate_quality_score that rewards the refusal phrases
calculate_quality_score_rewards_refusal(response, reference) ==
    IF response = NoneStr \/ response = "" THEN Zero
    ELSE LET length == WordCount(response)
             s1 == 50 + (IF 10 <= length /\ length <= 500 THEN 20
                         ELSE IF (5 <= length /\ length < 10)
                                 \/ (500 < length /\ length <= 1000) THEN 10
                         ELSE 0)
             s2 == s1 + (IF SplitDotCount(response) > 1 THEN 10 ELSE 0)
             s3 == s2 + (IF \/ StripEndsWith(response, ".")
                            \/ StripEndsWith(response, "!")
                            \/ StripEndsWith(response, "?") THEN 10 ELSE 0)
             s4 == s3 + (IF \/ Contains(response, "I apologize")
                            \/ Contains(response, "I cannot") THEN 10 ELSE 0)
             s5 == IF reference = NoneStr \/ reference = "" THEN RInt(s4)
                   ELSE RDiv(RAdd(RInt(s4),
                                  RMul(calculate_text_similarity(response, reference),
                                       Hundred)),
                             RInt(2))
         IN  RMin(Hundred, RMax(Zero, s5))

\* calculate_quality_score(response, reference); reference = NoneStr is the
\* default None
calculate_quality_score(response, reference) ==
    IF response = NoneStr \/ response = "" THEN Zero
    ELSE LET length == WordCount(response)
             s1 == 50 + (IF 10 <= length /\ length <= 500 THEN 20
                         ELSE IF (5 <= length /\ length < 10)
                                 \/ (500 < length /\ length <= 1000) THEN 10
                         ELSE 0)
             s2 == s1 + (IF SplitDotCount(response) > 1 THEN 10 ELSE 0)
             s3 == s2 + (IF \/ StripEndsWith(response, ".")
                            \/ StripEndsWith(response, "!")
                            \/ StripEndsWith(response, "?") THEN 10 ELSE 0)
             s4 == s3 - (IF \/ Contains(response, "I apologize")
                            \/ Contains(response, "I cannot") THEN 10 ELSE 0)
             s5 == IF reference = NoneStr \/ reference = "" THEN RInt(s4)
                   ELSE RDiv(RAdd(RInt(s4),
                                  RMul(calculate_text_similarity(response, reference),
                                       Hundred)),
                             RInt(2))
         IN  RMin(Hundred, RMax(Zero, s5))

\* calculate_context_utilization_score that loses 400 points per unit above
\* the band
calculate_context_utilization_score_gentle(prompt_length, max_context) ==
    IF max_context <= 0 THEN RInt(50)
    ELSE LET utilization == RMin(R(prompt_length, max_context), RInt(1))
         IN  IF RLe(R(1, 5), utilization) /\ RLe(utilization, R(4, 5))
                 THEN Hundred
             ELSE IF RLt(utilization, R(1, 5))
                 THEN RMul(utilization, RInt(500))
             ELSE RMax(Zero, RSub(Hundred,
                                  RMul(RSub(utilization, R(4, 5)), RInt(400))))

calculate_context_utilization_score(prompt_length, max_context) ==
    IF max_context <= 0 THEN RInt(50)
    ELSE LET utilization == RMin(R(prompt_length, max_context), RInt(1))
         IN  IF RLe(R(1, 5), utilization) /\ RLe(utilization, R(4, 5))
                 THEN Hundred
             ELSE IF RLt(utilization, R(1, 5))
                 THEN RMul(utilization, RInt(500))
             ELSE RMax(Zero, RSub(Hundred,
                                  RMul(RSub(utilization, R(4, 5)), RInt(500))))

DefaultWeights ==
    [latency |-> R(3, 10), cost |-> R(2, 10), quality |-> R(4, 10),
     context_utilization |-> R(1, 10)]

\* sum over the keys of a dict of Term[key]
RECURSIVE RSumOver(_, _)
RSumOver(keys, term) ==
    IF keys = {} THEN Zero
    ELSE LET k == CHOOSE x \in keys : TRUE
         IN  RAdd(term[k], RSumOver(keys \ {k}, term))

\* aggregate_scores that gives every metric the same weight
aggregate_scores_unweighted(scores, weights) ==
    IF DOMAIN scores = {} THEN Zero
    ELSE RDiv(RSumOver(DOMAIN scores, scores), RInt(Cardinality(DOMAIN scores)))

\* aggregate_scores that gives a metric absent from the weights no weight
aggregate_scores_absent_unweighted(scores, weights) ==
    IF DOMAIN scores = {} THEN Zero
    ELSE LET w == IF weights = NoneRec THEN DefaultWeights ELSE weights
             weight == [m \in DOMAIN scores |-> Get(w, m, Zero)]
             total_score ==
                 RSumOver(DOMAIN scores,
                          [m \in DOMAIN scores |-> RMul(scores[m], weight[m])])
             total_weight == RSumOver(DOMAIN scores, weight)
         IN  IF RLt(Zero, total_weight) THEN RDiv(total_score, total_weight)
             ELSE Zero

\* aggregate_scores(scores, weights); weights = NoneRec is the default None
aggregate_scores(scores, weights) ==
    IF DOMAIN scores = {} THEN Zero
    ELSE LET w == IF weights = NoneRec THEN DefaultWeights ELSE weights
             weight == [m \in DOMAIN scores |-> Get(w, m, R(1, 10))]
             total_score ==
                 RSumOver(DOMAIN scores,
                          [m \in DOMAIN scores |-> RMul(scores[m], weight[m])])
             total_weight == RSumOver(DOMAIN scores, weight)
         IN  IF RLt(Zero, total_weight) THEN RDiv(total_score, total_weight)
             ELSE Zero

\* ------------------------------------------------------------ connectors
\* GPTConnector._get_context_length / _get_cost_per_1k_tokens
GPTContextLengths ==
    ("gpt-4" :> 8192) @@ ("gpt-4-32k" :> 32768) @@ ("gpt-4-turbo" :> 128000)
    @@ ("gpt-3.5-turbo" :> 4096) @@ ("gpt-3.5-turbo-16k" :> 16384)
GPTCosts ==
    ("gpt-4" :> R(3, 100)) @@ ("gpt-4-32k" :> R(6, 100))
    @@ ("gpt-4-turbo" :> R(1, 100)) @@ ("gpt-3.5-turbo" :> R(2, 1000))
    @@ ("gpt-3.5-turbo-16k" :> R(4, 1000))

\* ClaudeConnector._get_context_length / _get_cost_per_1k_tokens
ClaudeContextLengths ==
    ("claude-3-opus-20240229" :> 200000) @@ ("claude-3-sonnet-20240229" :> 200000)
    @@ ("claude-3-haiku-20240307" :> 200000) @@ ("claude-2.1" :> 200000)
    @@ ("claude-2.0" :> 100000) @@ ("claude-instant-1.2" :> 100000)
ClaudeCosts ==
    ("claude-3-opus-20240229" :> R(75, 1000))
    @@ ("claude-3-sonnet-20240229" :> R(15, 1000))
    @@ ("claude-3-haiku-20240307" :> R(25, 10000)) @@ ("claude-2.1" :> R(24, 1000))
    @@ ("claude-2.0" :> R(24, 1000)) @@ ("claude-instant-1.2" :> R(8, 1000))

\* connector.get_model_info() of a connector built for model_name.  A
\* connector is the record [connector_class, model_name]; the class
\* "MockConnector" is the BaseModelConnector subclass of test_suite.py, and
\* "SkewedConnector" a BaseModelConnector subclass that reports a negative
\* price and no context window.
get_model_info(connector) ==
    CASE connector.connector_class = "GPTConnector" ->
            [name |-> connector.model_name, provider |-> "OpenAI",
             max_context_length |->
                 Get(GPTContextLengths, connector.model_name, 4096),
             cost_per_1k_tokens |->
                 Get(GPTCosts, connector.model_name, R(2, 1000))]
      [] connector.connector_class = "ClaudeConnector" ->
            [name |-> connector.model_name, provider |-> "Anthropic",
             max_context_length |->
                 Get(ClaudeContextLengths, connector.model_name, 100000),
             cost_per_1k_tokens |->
                 Get(ClaudeCosts, connector.model_name, R(24, 1000))]
      [] connector.connector_class = "SkewedConnector" ->
            [name |-> connector.model_name, provider |-> "Skewed",
             max_context_length |-> 0,
             cost_per_1k_tokens |-> R(-1, 100)]
      [] OTHER ->
            [name |-> connector.model_name, provider |-> "Mock",
             max_context_length |-> 4096,
             cost_per_1k_tokens |-> R(1, 100)]

\* The built-in connectors catch every Exception inside generate_response
\* and return success=False; any other BaseModelConnector subclass may let
\* one escape.
MayRaise(connector) ==
    connector.connector_class \notin {"GPTConnector", "ClaudeConnector"}

\* generate_response has no deadline of its own: a connector other than the
\* built-in ones, whose provider clients give up after their own timeout and
\* end in the except branch, may never return
MayNotReturn(connector) ==
    connector.connector_class \notin {"GPTConnector", "ClaudeConnector"}

\* ---------------------------------------------------------- ModelManager
\* ModelManager._create_connector / get_model_connector: NoneRec or the
\* connector.  The 'enabled' flag of the entry is not read.
create_connector(registry, model_id) ==
    IF model_id \notin DOMAIN registry THEN NoneRec
    ELSE LET model_data == registry[model_id]
         IN  IF "connector_class" \notin DOMAIN model_data
                \/ "model_name" \notin DOMAIN model_data
                 THEN NoneRec                     \* KeyError, caught
             ELSE IF Get(model_data, "api_key", "") = "" THEN NoneRec
             ELSE [connector_class |-> model_data.connector_class,
                   model_name |-> model_data.model_name]

get_model_connector(registry, model_id) == create_connector(registry, model_id)

\* ModelManager._save_config: what is written to the config file for a
\* registry, or `file` (what the file held) when an entry lacks a key and
\* the exception is caught before the file is opened
save_config(registry, file) ==
    IF \A model_id \in DOMAIN registry :
          {"model_name", "enabled"} \subseteq DOMAIN registry[model_id]
        THEN [model_id \in DOMAIN registry |->
                 [model_name |-> registry[model_id].model_name,
                  enabled |-> registry[model_id].enabled,
                  api_key |-> Get(registry[model_id], "api_key", ""),
                  custom_endpoint |->
                      Get(registry[model_id], "custom_endpoint", "")]]
    ELSE file

\* -------------------------------------------------------- BenchmarkRunner
KnownMetrics == {"latency", "cost", "quality", "context_utilization"}
DefaultMetrics == <<"latency", "cost", "quality">>

\* _evaluate_single_prompt that computes no metric for a failed generation
evaluate_single_prompt_blank_on_failure(response_data, prompt, metrics, model_info) ==
    [prompt |-> prompt,
     response |-> Get(response_data, "response", ""),
     success |-> Get(response_data, "success", FALSE),
     error |-> Get(response_data, "error", NoneStr),
     metrics |->
        IF Get(response_data, "success", FALSE)
            THEN [m \in Range(metrics) \cap KnownMetrics |->
                     [score |-> calculate_latency_score(
                                   Get(response_data, "latency", Zero))]]
            ELSE EmptyDict]

\* the part of _evaluate_single_prompt after the connector call returned
\* response_data (lines 87-137)
evaluate_single_prompt(response_data, prompt, metrics, model_info) ==
    LET latency == Get(response_data, "latency", Zero)
        tokens_used == Get(response_data, "tokens_used", 0)
        cost_per_1k == Get(model_info, "cost_per_1k_tokens", Zero)
        cost == RMul(R(tokens_used, 1000), cost_per_1k)
        prompt_length == WordCount(prompt)
        max_context == Get(model_info, "max_context_length", 4096)
        calculated_metrics ==
            [m \in Range(metrics) \cap KnownMetrics |->
                CASE m = "latency" ->
                        [raw_value |-> latency,
                         score |-> calculate_latency_score(latency)]
                  [] m = "cost" ->
                        [raw_value |-> cost, tokens_used |-> tokens_used,
                         score |-> calculate_cost_score(cost, DefaultMaxCost)]
                  [] m = "quality" ->
                        [score |-> calculate_quality_score(
                                      Get(response_data, "response", ""),
                                      NoneStr)]
                  [] m = "context_utilization" ->
                        [prompt_length |-> prompt_length,
                         max_context |-> max_context,
                         score |-> calculate_context_utilization_score(
                                      prompt_length, max_context)]]
    IN  [prompt |-> prompt,
         response |-> Get(response_data, "response", ""),
         success |-> Get(response_data, "success", FALSE),
         error |-> Get(response_data, "error", NoneStr),
         metrics |-> calculated_metrics]

\* the items of a list that satisfy a test, in order
RECURSIVE Filter(_, _)
Filter(s, keep) ==
    IF s = <<>> THEN <<>>
    ELSE (IF Head(s) \in keep THEN <<Head(s)>> ELSE <<>>) \o Filter(Tail(s), keep)

\* line 150 without the test of result['success']
Counted_IncludesFailed(prompt_results, metric) ==
    Filter(prompt_results,
           {r \in Range(prompt_results) : metric \in DOMAIN r.metrics})

\* the prompt results that count for a metric (line 150)
Counted(prompt_results, metric) ==
    Filter(prompt_results,
           {r \in Range(prompt_results) :
               r.success /\ metric \in DOMAIN r.metrics})

\* lines 146-167 for one metric: EmptyDict when no score was collected,
\* else the statistics of the metric
aggregate_metric(prompt_results, metric) ==
    LET counted == Counted(prompt_results, metric)
        scores == [i \in 1..Len(counted) |-> counted[i].metrics[metric].score]
        raw_results ==
            Filter(counted,
                   {r \in Range(counted) : "raw_value" \in DOMAIN r.metrics[metric]})
        raw_values ==
            [i \in 1..Len(raw_results) |-> raw_results[i].metrics[metric].raw_value]
        stats ==
            [average_score |-> RDiv(RSum(scores), RInt(Len(scores))),
             min_score |-> RMinSeq(scores),
             max_score |-> RMaxSeq(scores),
             count |-> Len(scores)]
        raw_stats ==
            [average_raw |-> RDiv(RSum(raw_values), RInt(Len(raw_values))),
             min_raw |-> RMinSeq(raw_values),
             max_raw |-> RMaxSeq(raw_values)]
    IN  IF scores = <<>> THEN EmptyDict
        ELSE IF raw_values # <<>> THEN stats @@ raw_stats
        ELSE stats

aggregate_prompt_results(prompt_results, metrics) ==
    LET per_metric ==
            [metric \in Range(metrics) |-> aggregate_metric(prompt_results, metric)]
        aggregated ==
            [metric \in {m \in Range(metrics) : per_metric[m] # EmptyDict} |->
                per_metric[metric]]
        metric_scores ==
            [metric \in DOMAIN aggregated |-> aggregated[metric].average_score]
    IN  IF DOMAIN aggregated # {}
            THEN aggregated @@
                 [m \in {"overall_score"} |->
                     aggregate_scores(metric_scores, NoneRec)]
            ELSE aggregated

\* an ascending sort read backwards: items with equal keys change places
sorted_reverse_unstable(items, keys) ==
    LET n == Len(items)
        pos == [i \in 1..n |->
                   Cardinality({j \in 1..n : RLt(keys[i], keys[j])})
                   + Cardinality({j \in (i + 1)..n : keys[j] = keys[i]}) + 1]
    IN  [p \in 1..n |-> items[CHOOSE i \in 1..n : pos[i] = p]]

\* sorted(items, key=..., reverse=True) given keys[i] = key(items[i]):
\* descending by key, items with equal keys in their original order
sorted_reverse(items, keys) ==
    LET n == Len(items)
        pos == [i \in 1..n |->
                   Cardinality({j \in 1..n : RLt(keys[i], keys[j])})
                   + Cardinality({j \in 1..(i - 1) : keys[j] = keys[i]}) + 1]
    IN  [p \in 1..n |-> items[CHOOSE i \in 1..n : pos[i] = p]]

\* the ranking of a metric that leaves out the models without its aggregate
metric_ranking_omits_missing(ids, model_scores, metric) ==
    LET have == Filter(ids, {m \in Range(ids) : metric \in DOMAIN model_scores[m]})
        pairs ==
            [i \in 1..Len(have) |->
                [model_id |-> have[i],
                 score |-> model_scores[have[i]][metric].average_score]]
        keys == [i \in 1..Len(have) |-> pairs[i].score]
    IN  sorted_reverse(pairs, keys)

\* lines 212-222 for one metric: the ranking by that metric
metric_ranking(ids, model_scores, metric) ==
    LET pairs ==
            [i \in 1..Len(ids) |->
                [model_id |-> ids[i],
                 score |-> Get(Get(model_scores[ids[i]], metric, EmptyDict),
                               "average_score", Zero)]]
        keys == [i \in 1..Len(ids) |-> pairs[i].score]
    IN  sorted_reverse(pairs, keys)

\* lines 189-192 leaving out the models whose aggregated_metrics is empty
scored_models_with_metrics(results) ==
    Filter(results.order,
           {m \in Range(results.order) :
               /\ "aggregated_metrics" \in DOMAIN results.data[m]
               /\ DOMAIN results.data[m].aggregated_metrics # {}})

\* lines 189-192: the ids of the models that are ranked, in the iteration
\* order of results
scored_models(results) ==
    Filter(results.order,
           {m \in Range(results.order) :
               "aggregated_metrics" \in DOMAIN results.data[m]})

\* lines 196-208: the ranking by overall score
overall_ranking(ids, model_scores) ==
    LET keys ==
            [i \in 1..Len(ids) |-> Get(model_scores[ids[i]], "overall_score", Zero)]
        ranked_models == sorted_reverse(ids, keys)
    IN  [i \in 1..Len(ids) |->
            [model_id |-> ranked_models[i],
             score |-> Get(model_scores[ranked_models[i]], "overall_score", Zero)]]

\* the best performer taken from the wrong end of the ranking
best_performers_last(metrics, metric_rankings) ==
    [m \in {x \in Range(metrics) : metric_rankings[x] # <<>>} |->
        metric_rankings[m][Len(metric_rankings[m])].model_id]

\* lines 224-226: the best performer of each metric
best_performers(metrics, metric_rankings) ==
    [m \in {x \in Range(metrics) : metric_rankings[x] # <<>>} |->
        metric_rankings[m][1].model_id]

\* _calculate_summary(results, metrics); results is [order, data]
calculate_summary(results, metrics) ==
    LET ids == scored_models(results)
        model_scores == [m \in Range(ids) |-> results.data[m].aggregated_metrics]
        metric_rankings ==
            [m \in Range(metrics) |-> metric_ranking(ids, model_scores, m)]
    IN  IF ids # <<>>
            THEN [rankings |->
                      metric_rankings
                      @@ [m \in {"overall"} |-> overall_ranking(ids, model_scores)],
                  best_performers |-> best_performers(metrics, metric_rankings),
                  metric_averages |-> EmptyDict]
            ELSE [rankings |-> EmptyDict, best_performers |-> EmptyDict,
                  metric_averages |-> EmptyDict]

\* ------------------------------------------------------------- Leaderboard
\* Leaderboard.cache_duration, in seconds
cache_duration == 300

\* the numbers get_rankings reports beside the rankings
total_benchmarks == 15
total_models == 5

\* the table get_rankings builds on every call (lines 18-47)
mock_rankings ==
    [overall |->
        <<[model_id |-> "openai_gpt-4", score |-> R(852, 10),
           provider |-> "OpenAI"],
          [model_id |-> "anthropic_claude-3-opus-20240229", score |-> R(837, 10),
           provider |-> "Anthropic"],
          [model_id |-> "anthropic_claude-3-sonnet-20240229", score |-> R(791, 10),
           provider |-> "Anthropic"],
          [model_id |-> "openai_gpt-3.5-turbo", score |-> R(743, 10),
           provider |-> "OpenAI"],
          [model_id |-> "anthropic_claude-3-haiku-20240307", score |-> R(718, 10),
           provider |-> "Anthropic"]>>,
     latency |->
        <<[model_id |-> "anthropic_claude-3-haiku-20240307", score |-> R(921, 10),
           avg_latency |-> R(8, 10)],
          [model_id |-> "openai_gpt-3.5-turbo", score |-> R(876, 10),
           avg_latency |-> R(12, 10)],
          [model_id |-> "anthropic_claude-3-sonnet-20240229", score |-> R(823, 10),
           avg_latency |-> R(18, 10)],
          [model_id |-> "openai_gpt-4", score |-> R(754, 10),
           avg_latency |-> R(25, 10)],
          [model_id |-> "anthropic_claude-3-opus-20240229", score |-> R(689, 10),
           avg_latency |-> R(32, 10)]>>,
     cost |->
        <<[model_id |-> "anthropic_claude-3-haiku-20240307", score |-> R(958, 10),
           avg_cost |-> R(25, 10000)],
          [model_id |-> "openai_gpt-3.5-turbo", score |-> R(932, 10),
           avg_cost |-> R(2, 1000)],
          [model_id |-> "anthropic_claude-3-sonnet-20240229", score |-> R(784, 10),
           avg_cost |-> R(15, 1000)],
          [model_id |-> "openai_gpt-4", score |-> R(621, 10),
           avg_cost |-> R(3, 100)],
          [model_id |-> "anthropic_claude-3-opus-20240229", score |-> R(453, 10),
           avg_cost |-> R(75, 1000)]>>,
     quality |->
        <<[model_id |-> "openai_gpt-4", score |-> R(917, 10),
           avg_quality |-> R(917, 10)],
          [model_id |-> "anthropic_claude-3-opus-20240229", score |-> R(902, 10),
           avg_quality |-> R(902, 10)],
          [model_id |-> "anthropic_claude-3-sonnet-20240229", score |-> R(856, 10),
           avg_quality |-> R(856, 10)],
          [model_id |-> "openai_gpt-3.5-turbo", score |-> R(789, 10),
           avg_quality |-> R(789, 10)],
          [model_id |-> "anthropic_claude-3-haiku-20240307", score |-> R(764, 10),
           avg_quality |-> R(764, 10)]>>]

\* what get_rankings(metric) returns when called at time now (lines 49-54)
get_rankings(metric, now) ==
    [rankings |-> Get(mock_rankings, metric, mock_rankings["overall"]),
     last_updated |-> now,
     total_benchmarks |-> total_benchmarks,
     total_models |-> total_models]

\* ------------------------------------------------------------ environment
\* The registry the runner is constructed with: a default model whose saved
\* configuration disabled it, a BaseModelConnector subclass registered the way
\* test_suite.py does, and a custom model added without an api key.
InitialModels ==
    ("anthropic_claude-2.1" :>
        [connector_class |-> "ClaudeConnector", api_key |-> "sk-ant",
         model_name |-> "claude-2.1", enabled |-> FALSE])
    @@ ("mock_test" :>
        [connector_class |-> "MockConnector", api_key |-> "test",
         model_name |-> "test-model", enabled |-> TRUE])
    @@ ("custom_local" :>
        [connector_class |-> "GPTConnector", api_key |-> "",
         model_name |-> "local", enabled |-> TRUE, custom_endpoint |-> ""])

\* the same registry with two models of the skewed connector class
SkewedModels ==
    ("skewed_test" :>
        [connector_class |-> "SkewedConnector", api_key |-> "test",
         model_name |-> "skewed-model", enabled |-> TRUE])
    @@ ("skewed_other" :>
        [connector_class |-> "SkewedConnector", api_key |-> "test",
         model_name |-> "skewed-other", enabled |-> TRUE])
    @@ InitialModels

\* the model ids a caller may name; "openai_gpt-5" is in no registry
ModelIdChoices ==
    {"anthropic_claude-2.1", "mock_test", "custom_local", "openai_gpt-5"}

PromptPool ==
    <<"What is AI?",
      "Explain gravity in one short sentence please.",
      "Summarize the plot of Hamlet.",
      "Hi">>

\* what a provider answers to a prompt when the call succeeds
ProviderAnswer ==
    ("What is AI?" :>
        [response |-> "AI is the simulation of human intelligence by machines.",
         latency |-> R(1, 2), tokens_used |-> 150])
    @@ ("Explain gravity in one short sentence please." :>
        [response |-> "I apologize but I cannot",
         latency |-> RInt(5), tokens_used |-> 40])
    @@ ("Summarize the plot of Hamlet." :>
        [response |-> "Hamlet avenges his father. Everyone dies at the end, including Hamlet himself!",
         latency |-> RInt(11), tokens_used |-> 900])
    @@ ("Hi" :>
        [response |-> "ok", latency |-> RInt(2), tokens_used |-> 10])

\* the dict generate_response returns on success and on a caught error
\* (gpt_connector.py / claude_connector.py)
SuccessResponse(connector, prompt) ==
    [response |-> ProviderAnswer[prompt].response,
     latency |-> ProviderAnswer[prompt].latency,
     tokens_used |-> ProviderAnswer[prompt].tokens_used,
     model |-> connector.model_name,
     success |-> TRUE]

FailureResponse(connector, prompt) ==
    [response |-> NoneStr,
     latency |-> RInt(3),
     tokens_used |-> 0,
     model |-> connector.model_name,
     success |-> FALSE,
     error |-> "Connection error."]

\* what a BaseModelConnector subclass that does not keep to the ranges of
\* the built-in connectors may return: latencies and token counts of either
\* sign, on success and on failure
SkewedResponses(connector, prompt) ==
    {[response |-> ProviderAnswer[prompt].response,
      latency |-> l,
      tokens_used |-> k,
      model |-> connector.model_name,
      success |-> TRUE] : l \in {RInt(-1), RInt(5), RInt(20)},
                          k \in {-20000, -50, 150}}
    \cup {[response |-> NoneStr,
           latency |-> RInt(-3),
           tokens_used |-> -7,
           model |-> connector.model_name,
           success |-> FALSE,
           error |-> "Connection error."]}

Responses(connector, prompt) ==
    IF connector.connector_class = "SkewedConnector"
        THEN SkewedResponses(connector, prompt)
    ELSE {SuccessResponse(connector, prompt), FailureResponse(connector, prompt)}

\* a call that raised instead of returning, in the call log
Raised == [raised |-> TRUE]

\* ------------------------------------------------------------------ inputs
PromptLists == {SubSeq(PromptPool, 1, k) : k \in 0..MaxPrompts}

RECURSIVE SeqsUpTo(_, _)
SeqsUpTo(S, n) ==
    IF n = 0 THEN {<<>>}
    ELSE LET shorter == SeqsUpTo(S, n - 1)
         IN  shorter \cup {Append(q, x) : q \in shorter, x \in S}

ModelIdLists == SeqsUpTo(ModelIdChoices, MaxModels)

\* the metrics argument: NoneRec is the default None, [list |-> l] a list
MetricsArgs ==
    {NoneRec} \cup
    {[list |-> l] : l \in {<<"latency">>,
                           <<"context_utilization", "accuracy">>}}

\* the requests made while several run at the same time
ConcPromptLists == {<<PromptPool[1]>>}
ConcModelIdLists == {<<"mock_test">>, <<"openai_gpt-5", "mock_test">>}
ConcMetricsArgs == {[list |-> <<"latency">>]}

\* the requests of a caller that runs the same benchmark again and again
SeqPromptLists == {<<PromptPool[1]>>}
SeqModelIdLists ==
    {<<"mock_test", "anthropic_claude-2.1">>,
     <<"anthropic_claude-2.1", "mock_test">>}
SeqMetricsArgs == {[list |-> <<"latency">>]}

\* the requests made of the registry with the skewed connector
SkewedPromptLists == {<<PromptPool[1]>>, <<PromptPool[1], PromptPool[4]>>}
SkewedModelIdLists ==
    {<<"skewed_test">>, <<"skewed_other", "skewed_test">>}
SkewedMetricsArgs ==
    {NoneRec,
     [list |-> <<"latency", "cost", "quality", "context_utilization">>]}

\* s repeated n times
RECURSIVE Repeat(_, _)
Repeat(s, n) ==
    IF n = 0 THEN ""
    ELSE LET half == Repeat(s, n \div 2)
         IN  IF n % 2 = 0 THEN half \o half ELSE half \o half \o s

\* the latencies calculate_latency_score is called with: -1.0 to 11.0 in
\* steps of 0.5
LatencyInputs == {R(k, 2) : k \in -2..22}

\* the (cost, max_cost) pairs calculate_cost_score is called with: costs from
\* -0.01 to 0.12 in steps of 0.01 with the default max_cost, and a few costs
\* with a max_cost of 0, of 0.2 and of -0.1
CostInputs ==
    {<<R(k, 100), DefaultMaxCost>> : k \in -1..12}
    \cup ({R(-1, 100), Zero, R(1, 20), R(3, 20)}
          \X {Zero, R(1, 5), R(-1, 10)})

\* the responses of test_suite.py, and responses of 1 to 1001 words
GoodResponse ==
    "This is a comprehensive answer to your question. It provides detailed information and ends properly."
Refusal == "I apologize but I cannot"
ShortResponses ==
    {NoneStr, "", Refusal, GoodResponse, "ok", "  Is that so?  ",
     "I cannot tell you more than these ten words, sorry!",
     "one two three four", "a.b c d e f g h i"}
LongResponses == {Repeat("w ", n) : n \in {500, 501, 1000, 1001}}
References == {NoneStr, "", "This is a Comprehensive answer"}

\* the (response, reference) pairs calculate_quality_score is called with
QualityInputs ==
    (ShortResponses \X References) \cup (LongResponses \X {NoneStr})

\* the (prompt_length, max_context) pairs
\* calculate_context_utilization_score is called with
ContextInputs ==
    ({-5, 0, 1, 10, 19, 20, 21, 50, 79, 80, 81, 90, 99, 100, 150} \X {100})
    \cup ({0, 50} \X {-1, 0})
    \cup {<<5000, 4096>>}

\* the (scores, weights) pairs aggregate_scores is called with; the second
\* and third are those of test_suite.py
ScoresInputs ==
    {EmptyDict,
     [latency |-> RInt(80), cost |-> RInt(70), quality |-> RInt(90)],
     [a |-> Hundred, b |-> Zero],
     [latency |-> RInt(60), accuracy |-> RInt(40)],
     [quality |-> R(197, 2)]}
WeightsInputs ==
    {NoneRec,
     [latency |-> R(1, 2), cost |-> R(3, 10), quality |-> R(1, 5)],
     [a |-> RInt(1), b |-> RInt(1)],
     [a |-> RInt(3)],
     [a |-> Zero, b |-> Zero, latency |-> Zero, accuracy |-> Zero,
      cost |-> Zero, quality |-> Zero],
     [a |-> RInt(1), b |-> RInt(-1)],
     [a |-> RInt(2), b |-> RInt(-1)]}
AggregateInputs == ScoresInputs \X WeightsInputs

\* what each calculator function gives for each of these inputs
LatencyScores == [l \in LatencyInputs |-> calculate_latency_score(l)]
CostScores == [c \in CostInputs |-> calculate_cost_score(c[1], c[2])]
QualityScores == [q \in QualityInputs |-> calculate_quality_score(q[1], q[2])]
ContextScores ==
    [c \in ContextInputs |-> calculate_context_utilization_score(c[1], c[2])]
AggregateScores == [a \in AggregateInputs |-> aggregate_scores(a[1], a[2])]

\* the bodies of the POST /api/models requests: the one of test_suite.py,
\* others with and without api_key and endpoint, and bodies without a name
ModelConfigs ==
    {[name |-> "test-model", api_key |-> "test-key",
      endpoint |-> "https://test.com"],
     [name |-> "test-model"],
     [name |-> "local", api_key |-> "sk-local"],
     [name |-> "local", endpoint |-> "http://localhost:8000"],
     [name |-> "fast"],
     [name |-> "fast", api_key |-> "k", endpoint |-> "e"],
     [name |-> "fast", api_key |-> ""],
     [api_key |-> "test-key", endpoint |-> "https://test.com"],
     [model_name |-> "test-model"],
     EmptyDict}

\* the metric names get_rankings is called with
RankingMetrics == {"overall", "latency", "cost", "quality", "accuracy"}

\* what a caller appends to the prompts list it passed
LatePrompt == "Hi"

Threads == 1..MaxThreads
BenchmarkIds == 1..(MaxThreads + 1)

\* ------------------------------------------------------------------- state
VARIABLES
    models,         \* ModelManager.models
    results_store,  \* BenchmarkRunner.results_store: benchmark id -> run
    clock,          \* number of run_benchmark calls begun: the source of
                    \* uuid4() and time.time()
    pc,             \* per thread: where its run_benchmark call stands
    frame,          \* per thread: the locals of its run_benchmark call
    ret,            \* per thread: what its run_benchmark call returned
    lastGet,        \* the last get_results call: [benchmark_id, result]
    history,        \* the run_benchmark calls of a caller that have ended
    rankings_cache, \* Leaderboard.rankings_cache
    last_update,    \* Leaderboard.last_update
    update_calls,   \* the runs passed to update_rankings so far: [id, models]
    lastRankings,   \* the last get_rankings call: [metric, result, updates]
    config_file,    \* the saved model configuration (ModelManager.config_file)
    lastAdd,        \* the last add_model call: [model_config, result]
    calc            \* the last two MetricsCalculator calls, newest first

\* the state of the Leaderboard and the log of the calls made to it
boardVars == <<rankings_cache, last_update, update_calls, lastRankings>>

\* the state beside the runner and the leaderboard, and the log of the
\* calls made to the registry and to the calculator
toolVars == <<config_file, lastAdd, calc>>

vars == <<models, results_store, clock, pc, frame, ret, lastGet, history,
          boardVars, toolVars>>

Init ==
    /\ models = InitialModels
    /\ results_store = EmptyDict
    /\ clock = 0
    /\ pc = [t \in Threads |-> "idle"]
    /\ frame = [t \in Threads |-> NoneRec]
    /\ ret = [t \in Threads |-> NoneRec]
    /\ lastGet = NoneRec
    /\ history = <<>>
    /\ rankings_cache = EmptyDict
    /\ last_update = 0
    /\ update_calls = {}
    /\ lastRankings = NoneRec
    /\ config_file = NoneRec
    /\ lastAdd = NoneRec
    /\ calc = <<>>

\* the state after construction over the registry with the skewed connector
InitSkewed ==
    /\ models = SkewedModels
    /\ results_store = EmptyDict
    /\ clock = 0
    /\ pc = [t \in Threads |-> "idle"]
    /\ frame = [t \in Threads |-> NoneRec]
    /\ ret = [t \in Threads |-> NoneRec]
    /\ lastGet = NoneRec
    /\ history = <<>>
    /\ rankings_cache = EmptyDict
    /\ last_update = 0
    /\ update_calls = {}
    /\ lastRankings = NoneRec
    /\ config_file = NoneRec
    /\ lastAdd = NoneRec
    /\ calc = <<>>

\* ----------------------------------------------------------------- actions
\* run_benchmark that puts the structure in the store as soon as it is built
Begin_StoresAtOnce(t, prompts, model_ids, metrics_arg) ==
    /\ pc[t] = "idle"
    /\ LET metrics == IF metrics_arg = NoneRec THEN DefaultMetrics
                      ELSE metrics_arg.list
           benchmark_results ==
               [id |-> clock + 1,
                timestamp |-> clock + 1,
                prompts |-> prompts,
                model_ids |-> model_ids,
                metrics |-> metrics,
                results |-> [order |-> <<>>, data |-> EmptyDict],
                summary |-> EmptyDict]
       IN  /\ frame' = [frame EXCEPT ![t] =
                        [benchmark_results |-> benchmark_results,
                         model_idx |-> 1,
                         connector |-> NoneRec,
                         model_info |-> NoneRec,
                         prompt_results |-> <<>>,
                         calls |-> <<>>]]
           /\ results_store' = (benchmark_results.id :> benchmark_results)
                               @@ results_store
    /\ clock' = clock + 1
    /\ pc' = [pc EXCEPT ![t] = "models"]
    /\ UNCHANGED <<models, ret, lastGet, history, boardVars, toolVars>>

\* run_benchmark that numbers its runs by the size of the store
Begin_IdFromStoreSize(t, prompts, model_ids, metrics_arg) ==
    /\ pc[t] = "idle"
    /\ LET metrics == IF metrics_arg = NoneRec THEN DefaultMetrics
                      ELSE metrics_arg.list
           benchmark_results ==
               [id |-> Cardinality(DOMAIN results_store) + 1,
                timestamp |-> clock + 1,
                prompts |-> prompts,
                model_ids |-> model_ids,
                metrics |-> metrics,
                results |-> [order |-> <<>>, data |-> EmptyDict],
                summary |-> EmptyDict]
       IN  frame' = [frame EXCEPT ![t] =
                        [benchmark_results |-> benchmark_results,
                         model_idx |-> 1,
                         connector |-> NoneRec,
                         model_info |-> NoneRec,
                         prompt_results |-> <<>>,
                         calls |-> <<>>]]
    /\ clock' = clock + 1
    /\ pc' = [pc EXCEPT ![t] = "models"]
    /\ UNCHANGED <<models, results_store, ret, lastGet, history, boardVars, toolVars>>

\* run_benchmark, lines 19-33: the id, the initial structure
Begin(t, prompts, model_ids, metrics_arg) ==
    /\ pc[t] = "idle"
    /\ LET metrics == IF metrics_arg = NoneRec THEN DefaultMetrics
                      ELSE metrics_arg.list
           benchmark_results ==
               [id |-> clock + 1,
                timestamp |-> clock + 1,
                prompts |-> prompts,
                model_ids |-> model_ids,
                metrics |-> metrics,
                results |-> [order |-> <<>>, data |-> EmptyDict],
                summary |-> EmptyDict]
       IN  frame' = [frame EXCEPT ![t] =
                        [benchmark_results |-> benchmark_results,
                         model_idx |-> 1,
                         connector |-> NoneRec,
                         model_info |-> NoneRec,
                         prompt_results |-> <<>>,
                         calls |-> <<>>]]
    /\ clock' = clock + 1
    /\ pc' = [pc EXCEPT ![t] = "models"]
    /\ UNCHANGED <<models, results_store, ret, lastGet, history, boardVars, toolVars>>

\* the lookup without the `continue`: an unresolved model gets an empty entry
LookupModel_KeepsUnresolved(t) ==
    /\ pc[t] = "models"
    /\ frame[t].model_idx <= Len(frame[t].benchmark_results.model_ids)
    /\ LET f == frame[t]
           model_id == f.benchmark_results.model_ids[f.model_idx]
           connector == get_model_connector(models, model_id)
           results == f.benchmark_results.results
       IN  IF connector = NoneRec
               THEN /\ frame' = [frame EXCEPT
                        ![t].model_idx = f.model_idx + 1,
                        ![t].benchmark_results.results =
                            [order |-> IF model_id \in Range(results.order)
                                           THEN results.order
                                           ELSE Append(results.order, model_id),
                             data |-> (model_id :>
                                         [model_id |-> model_id,
                                          model_info |-> EmptyDict,
                                          prompt_results |-> <<>>,
                                          aggregated_metrics |-> EmptyDict])
                                      @@ results.data]]
                    /\ pc' = pc
               ELSE /\ frame' = [frame EXCEPT
                                    ![t].connector = connector,
                                    ![t].model_info = get_model_info(connector),
                                    ![t].prompt_results = <<>>]
                    /\ pc' = [pc EXCEPT ![t] = "prompts"]
    /\ UNCHANGED <<models, results_store, clock, ret, lastGet, history, boardVars, toolVars>>

\* run_benchmark, lines 36-39, and _run_model_benchmark, lines 60-61: the
\* next model id is looked up; an unresolved one is skipped
LookupModel(t) ==
    /\ pc[t] = "models"
    /\ frame[t].model_idx <= Len(frame[t].benchmark_results.model_ids)
    /\ LET f == frame[t]
           model_id == f.benchmark_results.model_ids[f.model_idx]
           connector == get_model_connector(models, model_id)
       IN  IF connector = NoneRec
               THEN /\ frame' = [frame EXCEPT ![t].model_idx = f.model_idx + 1]
                    /\ pc' = pc
               ELSE /\ frame' = [frame EXCEPT
                                    ![t].connector = connector,
                                    ![t].model_info = get_model_info(connector),
                                    ![t].prompt_results = <<>>]
                    /\ pc' = [pc EXCEPT ![t] = "prompts"]
    /\ UNCHANGED <<models, results_store, clock, ret, lastGet, history, boardVars, toolVars>>

\* the prompt loop that puts each result in front of the earlier ones
EvaluatePromptReturns_NewestFirst(t, response_data) ==
    /\ pc[t] = "prompts"
    /\ Len(frame[t].prompt_results) < Len(frame[t].benchmark_results.prompts)
    /\ LET f == frame[t]
           i == Len(f.prompt_results)
           prompt == f.benchmark_results.prompts[i + 1]
           prompt_result ==
               evaluate_single_prompt(response_data, prompt,
                                      f.benchmark_results.metrics, f.model_info)
               @@ [k \in {"prompt_index"} |-> i]
       IN  /\ response_data \in Responses(f.connector, prompt)
           /\ frame' = [frame EXCEPT
                   ![t].prompt_results = <<prompt_result>> \o f.prompt_results,
                   ![t].calls = Append(f.calls,
                       [model_id |-> f.benchmark_results.model_ids[f.model_idx],
                        prompt_index |-> i,
                        response_data |-> response_data])]
    /\ UNCHANGED <<models, results_store, clock, pc, ret, lastGet, history,
                   boardVars, toolVars>>

\* _run_model_benchmark, lines 63-68, with _evaluate_single_prompt: the
\* connector call for the next prompt returns response_data
EvaluatePromptReturns(t, response_data) ==
    /\ pc[t] = "prompts"
    /\ Len(frame[t].prompt_results) < Len(frame[t].benchmark_results.prompts)
    /\ LET f == frame[t]
           i == Len(f.prompt_results)
           prompt == f.benchmark_results.prompts[i + 1]
           prompt_result ==
               evaluate_single_prompt(response_data, prompt,
                                      f.benchmark_results.metrics, f.model_info)
               @@ [k \in {"prompt_index"} |-> i]
       IN  /\ response_data \in Responses(f.connector, prompt)
           /\ frame' = [frame EXCEPT
                   ![t].prompt_results = Append(f.prompt_results, prompt_result),
                   ![t].calls = Append(f.calls,
                       [model_id |-> f.benchmark_results.model_ids[f.model_idx],
                        prompt_index |-> i,
                        response_data |-> response_data])]
    /\ UNCHANGED <<models, results_store, clock, pc, ret, lastGet, history, boardVars, toolVars>>

\* line 85 when generate_response raises: nothing on the way up catches it,
\* so the exception leaves run_benchmark
EvaluatePromptRaises(t) ==
    /\ pc[t] = "prompts"
    /\ Len(frame[t].prompt_results) < Len(frame[t].benchmark_results.prompts)
    /\ MayRaise(frame[t].connector)
    /\ frame' = [frame EXCEPT ![t].calls = Append(frame[t].calls,
                    [model_id |-> frame[t].benchmark_results.model_ids[frame[t].model_idx],
                     prompt_index |-> Len(frame[t].prompt_results),
                     response_data |-> Raised])]
    /\ pc' = [pc EXCEPT ![t] = "raised"]
    /\ UNCHANGED <<models, results_store, clock, ret, lastGet, history, boardVars, toolVars>>

\* _run_model_benchmark that returns nothing for a model without prompt
\* results, so that run_benchmark records no entry for it
FinishModel_DropsEmpty(t) ==
    /\ pc[t] = "prompts"
    /\ Len(frame[t].prompt_results) = Len(frame[t].benchmark_results.prompts)
    /\ LET f == frame[t]
           model_id == f.benchmark_results.model_ids[f.model_idx]
           model_results ==
               [model_id |-> model_id,
                model_info |-> f.model_info,
                prompt_results |-> f.prompt_results,
                aggregated_metrics |->
                    aggregate_prompt_results(f.prompt_results,
                                             f.benchmark_results.metrics)]
           results == f.benchmark_results.results
       IN  frame' = [frame EXCEPT
               ![t].benchmark_results.results =
                   IF f.prompt_results = <<>> THEN results
                   ELSE [order |-> IF model_id \in Range(results.order)
                                       THEN results.order
                                       ELSE Append(results.order, model_id),
                         data |-> (model_id :> model_results) @@ results.data],
               ![t].model_idx = f.model_idx + 1,
               ![t].prompt_results = <<>>]
    /\ pc' = [pc EXCEPT ![t] = "models"]
    /\ UNCHANGED <<models, results_store, clock, ret, lastGet, history,
                   boardVars, toolVars>>

\* run_benchmark that keeps the first entry written for a model id
FinishModel_KeepsFirst(t) ==
    /\ pc[t] = "prompts"
    /\ Len(frame[t].prompt_results) = Len(frame[t].benchmark_results.prompts)
    /\ LET f == frame[t]
           model_id == f.benchmark_results.model_ids[f.model_idx]
           model_results ==
               [model_id |-> model_id,
                model_info |-> f.model_info,
                prompt_results |-> f.prompt_results,
                aggregated_metrics |->
                    aggregate_prompt_results(f.prompt_results,
                                             f.benchmark_results.metrics)]
           results == f.benchmark_results.results
       IN  frame' = [frame EXCEPT
               ![t].benchmark_results.results =
                   [order |-> IF model_id \in Range(results.order)
                                  THEN results.order
                                  ELSE Append(results.order, model_id),
                    data |-> results.data @@ (model_id :> model_results)],
               ![t].model_idx = f.model_idx + 1,
               ![t].prompt_results = <<>>]
    /\ pc' = [pc EXCEPT ![t] = "models"]
    /\ UNCHANGED <<models, results_store, clock, ret, lastGet, history, boardVars, toolVars>>

\* _run_model_benchmark, lines 70-78, and run_benchmark, line 44
FinishModel(t) ==
    /\ pc[t] = "prompts"
    /\ Len(frame[t].prompt_results) = Len(frame[t].benchmark_results.prompts)
    /\ LET f == frame[t]
           model_id == f.benchmark_results.model_ids[f.model_idx]
           model_results ==
               [model_id |-> model_id,
                model_info |-> f.model_info,
                prompt_results |-> f.prompt_results,
                aggregated_metrics |->
                    aggregate_prompt_results(f.prompt_results,
                                             f.benchmark_results.metrics)]
           results == f.benchmark_results.results
       IN  frame' = [frame EXCEPT
               ![t].benchmark_results.results =
                   [order |-> IF model_id \in Range(results.order)
                                  THEN results.order
                                  ELSE Append(results.order, model_id),
                    data |-> (model_id :> model_results) @@ results.data],
               ![t].model_idx = f.model_idx + 1,
               ![t].prompt_results = <<>>]
    /\ pc' = [pc EXCEPT ![t] = "models"]
    /\ UNCHANGED <<models, results_store, clock, ret, lastGet, history, boardVars, toolVars>>

\* the sequence s read backwards
Reverse(s) == [i \in 1..Len(s) |-> s[Len(s) + 1 - i]]

\* run_benchmark whose summary walks the results in an order that changes
\* from one call to the next
Finish_OrderByCall(t) ==
    /\ pc[t] = "models"
    /\ frame[t].model_idx > Len(frame[t].benchmark_results.model_ids)
    /\ LET b == frame[t].benchmark_results
           walked == [order |-> IF clock % 2 = 0 THEN Reverse(b.results.order)
                                ELSE b.results.order,
                      data |-> b.results.data]
           benchmark_results ==
               [b EXCEPT !.summary = calculate_summary(walked, b.metrics)]
       IN  /\ frame' = [frame EXCEPT ![t].benchmark_results = benchmark_results]
           /\ results_store' = (b.id :> benchmark_results) @@ results_store
           /\ ret' = [ret EXCEPT ![t] = benchmark_results]
    /\ pc' = [pc EXCEPT ![t] = "done"]
    /\ UNCHANGED <<models, clock, lastGet, history, boardVars, toolVars>>

\* run_benchmark, lines 46-54: the summary, the store, the return
Finish(t) ==
    /\ pc[t] = "models"
    /\ frame[t].model_idx > Len(frame[t].benchmark_results.model_ids)
    /\ LET b == frame[t].benchmark_results
           benchmark_results ==
               [b EXCEPT !.summary = calculate_summary(b.results, b.metrics)]
       IN  /\ frame' = [frame EXCEPT ![t].benchmark_results = benchmark_results]
           /\ results_store' = (b.id :> benchmark_results) @@ results_store
           /\ ret' = [ret EXCEPT ![t] = benchmark_results]
    /\ pc' = [pc EXCEPT ![t] = "done"]
    /\ UNCHANGED <<models, clock, lastGet, history, boardVars, toolVars>>

\* BenchmarkRunner.get_results, called by get_benchmark_results of app.py
GetResults(benchmark_id) ==
    /\ lastGet' = [benchmark_id |-> benchmark_id,
                   result |-> Get(results_store, benchmark_id, NoneRec)]
    /\ UNCHANGED <<models, results_store, clock, pc, frame, ret, history, boardVars, toolVars>>

\* line 85 when generate_response never returns: the caller waits for it
\* without a deadline, at this line for ever
EvaluatePromptNeverReturns(t) ==
    /\ pc[t] = "prompts"
    /\ Len(frame[t].prompt_results) < Len(frame[t].benchmark_results.prompts)
    /\ MayNotReturn(frame[t].connector)
    /\ pc' = [pc EXCEPT ![t] = "calling"]
    /\ UNCHANGED <<models, results_store, clock, frame, ret, lastGet, history,
                   boardVars, toolVars>>

\* the caller has its answer (the run, or the exception) and is free to make
\* its next call; history keeps what the call was and what it gave
Return(t) ==
    /\ pc[t] \in {"done", "raised"}
    /\ history' = Append(history,
                     [prompts |-> frame[t].benchmark_results.prompts,
                      model_ids |-> frame[t].benchmark_results.model_ids,
                      metrics |-> frame[t].benchmark_results.metrics,
                      calls |-> frame[t].calls,
                      run |-> IF pc[t] = "done" THEN ret[t] ELSE NoneRec])
    /\ pc' = [pc EXCEPT ![t] = "idle"]
    /\ frame' = [frame EXCEPT ![t] = NoneRec]
    /\ ret' = [ret EXCEPT ![t] = NoneRec]
    /\ UNCHANGED <<models, results_store, clock, lastGet, boardVars, toolVars>>

\* The dict run_benchmark returns (line 54) is the object it stored (line
\* 52), and its 'prompts' and 'model_ids' are the caller's own lists (lines
\* 28-29): what the caller does to any of them is done to the stored run.
\* The caller empties the results of the run it received.
CallerModifiesRun(t) ==
    /\ pc[t] = "done"
    /\ ret[t].results.order # <<>>
    /\ LET run == [ret[t] EXCEPT !.results = [order |-> <<>>, data |-> EmptyDict]]
       IN  /\ ret' = [ret EXCEPT ![t] = run]
           /\ results_store' = [results_store EXCEPT ![run.id] = run]
    /\ UNCHANGED <<models, clock, pc, frame, lastGet, history, boardVars, toolVars>>

\* the caller appends a prompt to the prompts list it passed
CallerModifiesPrompts(t) ==
    /\ pc[t] = "done"
    /\ Len(ret[t].prompts) <= MaxPrompts
    /\ LET run == [ret[t] EXCEPT !.prompts = Append(ret[t].prompts, LatePrompt)]
       IN  /\ ret' = [ret EXCEPT ![t] = run]
           /\ results_store' = [results_store EXCEPT ![run.id] = run]
    /\ UNCHANGED <<models, clock, pc, frame, lastGet, history, boardVars, toolVars>>

\* the caller removes the last id of the model_ids list it passed
CallerModifiesModelIds(t) ==
    /\ pc[t] = "done"
    /\ ret[t].model_ids # <<>>
    /\ LET run == [ret[t] EXCEPT !.model_ids =
                      SubSeq(ret[t].model_ids, 1, Len(ret[t].model_ids) - 1)]
       IN  /\ ret' = [ret EXCEPT ![t] = run]
           /\ results_store' = [results_store EXCEPT ![run.id] = run]
    /\ UNCHANGED <<models, clock, pc, frame, lastGet, history, boardVars, toolVars>>

\* Leaderboard.update_rankings(benchmark_results) with the run a call
\* returned: the run is not read
UpdateRankings(t) ==
    /\ pc[t] = "done"
    /\ rankings_cache' = EmptyDict
    /\ last_update' = clock
    /\ update_calls' = update_calls \cup
                          {[id |-> ret[t].id, models |-> ret[t].results.order]}
    /\ UNCHANGED <<models, results_store, clock, pc, frame, ret, lastGet,
                   history, lastRankings, toolVars>>

\* Leaderboard.get_rankings(metric)
GetRankings(metric) ==
    /\ lastRankings' = [metric |-> metric,
                        result |-> get_rankings(metric, clock),
                        updates |-> update_calls]
    /\ UNCHANGED <<models, results_store, clock, pc, frame, ret, lastGet,
                   history, rankings_cache, last_update, update_calls,
                   toolVars>>

\* ---------------------------------------------------------- specifications
\* one caller: a run_benchmark call with any request
Next ==
    \/ \E prompts \in PromptLists, model_ids \in ModelIdLists,
          metrics_arg \in MetricsArgs :
            Begin(1, prompts, model_ids, metrics_arg)
    \/ LookupModel(1)
    \/ \E response_data \in
            UNION {Responses(c, p) :
                     c \in {create_connector(InitialModels, m) : m \in DOMAIN InitialModels}
                           \ {NoneRec},
                     p \in Range(PromptPool)} :
            EvaluatePromptReturns(1, response_data)
    \/ EvaluatePromptRaises(1)
    \/ FinishModel(1)
    \/ Finish(1)

Spec == Init /\ [][Next]_vars

\* request threads of the Flask server: run_benchmark calls that overlap
\* each other and get_results calls, on one BenchmarkRunner
NextConc ==
    \/ \E t \in Threads, prompts \in ConcPromptLists,
          model_ids \in ConcModelIdLists, metrics_arg \in ConcMetricsArgs :
            Begin(t, prompts, model_ids, metrics_arg)
    \/ \E t \in Threads : LookupModel(t)
    \/ \E t \in Threads :
        \E response_data \in
            UNION {Responses(create_connector(InitialModels, "mock_test"), p) :
                     p \in Range(PromptPool)} :
            EvaluatePromptReturns(t, response_data)
    \/ \E t \in Threads : EvaluatePromptRaises(t)
    \/ \E t \in Threads : FinishModel(t)
    \/ \E t \in Threads : Finish(t)
    \/ \E benchmark_id \in BenchmarkIds : GetResults(benchmark_id)

SpecConc == Init /\ [][NextConc]_vars

\* one caller whose connector calls may also never return; the thread of a
\* call runs on whenever it can
NextLive ==
    \/ Next
    \/ EvaluatePromptNeverReturns(1)

SpecLive == Init /\ [][NextLive]_vars /\ WF_vars(NextLive)

\* one caller that makes one run_benchmark call after the other
NextSeq ==
    \/ /\ Len(history) < MaxRuns
       /\ \E prompts \in SeqPromptLists, model_ids \in SeqModelIdLists,
             metrics_arg \in SeqMetricsArgs :
               Begin(1, prompts, model_ids, metrics_arg)
    \/ LookupModel(1)
    \/ \E response_data \in
            UNION {Responses(c, p) :
                     c \in {create_connector(InitialModels, m) : m \in DOMAIN InitialModels}
                           \ {NoneRec},
                     p \in Range(PromptPool)} :
            EvaluatePromptReturns(1, response_data)
    \/ EvaluatePromptRaises(1)
    \/ FinishModel(1)
    \/ Finish(1)
    \/ Return(1)

SpecSeq == Init /\ [][NextSeq]_vars

\* one caller that goes on to use the run it received: it changes it, reads
\* the store, and feeds the leaderboard, the way test_suite.py drives them
NextCaller ==
    \/ \E prompts \in ConcPromptLists, model_ids \in ConcModelIdLists,
          metrics_arg \in ConcMetricsArgs :
            Begin(1, prompts, model_ids, metrics_arg)
    \/ LookupModel(1)
    \/ \E response_data \in
            UNION {Responses(create_connector(InitialModels, "mock_test"), p) :
                     p \in Range(PromptPool)} :
            EvaluatePromptReturns(1, response_data)
    \/ EvaluatePromptRaises(1)
    \/ FinishModel(1)
    \/ Finish(1)
    \/ CallerModifiesRun(1)
    \/ CallerModifiesPrompts(1)
    \/ CallerModifiesModelIds(1)
    \/ \E benchmark_id \in BenchmarkIds : GetResults(benchmark_id)
    \/ UpdateRankings(1)
    \/ \E metric \in RankingMetrics : GetRankings(metric)

SpecCaller == Init /\ [][NextCaller]_vars

\* add_model that registers the model disabled
AddModel_RegistersDisabled(model_config) ==
    IF "name" \in DOMAIN model_config
        THEN LET model_id == "custom_" \o model_config.name
                 registered ==
                     (model_id :>
                        [connector_class |-> "GPTConnector",
                         api_key |-> Get(model_config, "api_key", ""),
                         model_name |-> model_config.name,
                         enabled |-> FALSE,
                         custom_endpoint |-> Get(model_config, "endpoint", "")])
                     @@ models
             IN  /\ models' = registered
                 /\ config_file' = save_config(registered, config_file)
                 /\ lastAdd' = [model_config |-> model_config,
                                models_before |-> models,
                                result |-> [success |-> TRUE,
                                            model_id |-> model_id]]
                 /\ UNCHANGED <<results_store, clock, pc, frame, ret, lastGet,
                                history, boardVars, calc>>
    ELSE /\ lastAdd' = [model_config |-> model_config,
                        models_before |-> models,
                        result |-> [success |-> FALSE, error |-> "'name'"]]
         /\ UNCHANGED <<models, config_file, results_store, clock, pc, frame,
                        ret, lastGet, history, boardVars, calc>>

\* ModelManager.add_model(model_config), lines 97-118: a config with a name
\* is registered under custom_<name> and the registry saved; for one without,
\* line 100 raises KeyError before anything is changed, and line 117 turns it
\* into the result
AddModel(model_config) ==
    IF "name" \in DOMAIN model_config
        THEN LET model_id == "custom_" \o model_config.name
                 registered ==
                     (model_id :>
                        [connector_class |-> "GPTConnector",
                         api_key |-> Get(model_config, "api_key", ""),
                         model_name |-> model_config.name,
                         enabled |-> TRUE,
                         custom_endpoint |-> Get(model_config, "endpoint", "")])
                     @@ models
             IN  /\ models' = registered
                 /\ config_file' = save_config(registered, config_file)
                 /\ lastAdd' = [model_config |-> model_config,
                                models_before |-> models,
                                result |-> [success |-> TRUE,
                                            model_id |-> model_id]]
                 /\ UNCHANGED <<results_store, clock, pc, frame, ret, lastGet,
                                history, boardVars, calc>>
    ELSE /\ lastAdd' = [model_config |-> model_config,
                        models_before |-> models,
                        result |-> [success |-> FALSE, error |-> "'name'"]]
         /\ UNCHANGED <<models, config_file, results_store, clock, pc, frame,
                        ret, lastGet, history, boardVars, calc>>

\* the log of the calculator after one more call: the new call first, and
\* after it the call before when that was a call of the same function
Logged(call) ==
    IF calc # <<>> /\ calc[1].op = call.op THEN <<call, calc[1]>>
    ELSE <<call>>

\* a call of MetricsCalculator.calculate_latency_score
CalculateLatencyScore(latency) ==
    /\ calc' = Logged([op |-> "latency", latency |-> latency,
                       result |-> LatencyScores[latency]])
    /\ UNCHANGED <<models, results_store, clock, pc, frame, ret, lastGet,
                   history, boardVars, config_file, lastAdd>>

\* a call of MetricsCalculator.calculate_cost_score
CalculateCostScore(cost, max_cost) ==
    /\ calc' = Logged([op |-> "cost", cost |-> cost, max_cost |-> max_cost,
                       result |-> CostScores[<<cost, max_cost>>]])
    /\ UNCHANGED <<models, results_store, clock, pc, frame, ret, lastGet,
                   history, boardVars, config_file, lastAdd>>

\* a call of MetricsCalculator.calculate_quality_score
CalculateQualityScore(response, reference) ==
    /\ calc' = Logged([op |-> "quality", response |-> response,
                       reference |-> reference,
                       result |-> QualityScores[<<response, reference>>]])
    /\ UNCHANGED <<models, results_store, clock, pc, frame, ret, lastGet,
                   history, boardVars, config_file, lastAdd>>

\* a call of MetricsCalculator.calculate_context_utilization_score
CalculateContextUtilizationScore(prompt_length, max_context) ==
    /\ calc' = Logged([op |-> "context_utilization",
                       prompt_length |-> prompt_length,
                       max_context |-> max_context,
                       result |-> ContextScores[<<prompt_length, max_context>>]])
    /\ UNCHANGED <<models, results_store, clock, pc, frame, ret, lastGet,
                   history, boardVars, config_file, lastAdd>>

\* a call of MetricsCalculator.aggregate_scores
AggregateScoresCall(scores, weights) ==
    /\ calc' = Logged([op |-> "aggregate", scores |-> scores,
                       weights |-> weights,
                       result |-> AggregateScores[<<scores, weights>>]])
    /\ UNCHANGED <<models, results_store, clock, pc, frame, ret, lastGet,
                   history, boardVars, config_file, lastAdd>>

\* a user of the numeric functions of the calculator alone, the way
\* TestMetricsCalculator calls them
NextCalc ==
    \/ \E latency \in LatencyInputs : CalculateLatencyScore(latency)
    \/ \E c \in CostInputs : CalculateCostScore(c[1], c[2])
    \/ \E c \in ContextInputs : CalculateContextUtilizationScore(c[1], c[2])
    \/ \E a \in AggregateInputs : AggregateScoresCall(a[1], a[2])

\* a user of the quality score alone
NextQuality ==
    \E q \in QualityInputs : CalculateQualityScore(q[1], q[2])

SpecQuality == Init /\ [][NextQuality]_vars

SpecCalc == Init /\ [][NextCalc]_vars

\* the clients of POST /api/models
NextRegistry == \E model_config \in ModelConfigs : AddModel(model_config)

SpecRegistry == Init /\ [][NextRegistry]_vars

\* one caller of a runner whose registry holds the skewed connector
NextSkewed ==
    \/ \E prompts \in SkewedPromptLists, model_ids \in SkewedModelIdLists,
          metrics_arg \in SkewedMetricsArgs :
            Begin(1, prompts, model_ids, metrics_arg)
    \/ LookupModel(1)
    \/ \E response_data \in
            UNION {Responses(c, p) :
                     c \in {create_connector(SkewedModels, m) : m \in DOMAIN SkewedModels}
                           \ {NoneRec},
                     p \in Range(PromptPool)} :
            EvaluatePromptReturns(1, response_data)
    \/ EvaluatePromptRaises(1)
    \/ FinishModel(1)
    \/ Finish(1)

SpecSkewed == InitSkewed /\ [][NextSkewed]_vars

\* ------------------------------------------------------ reading the state
Started(t) == frame[t] # NoneRec

\* the run a thread is building
Run(t) == frame[t].benchmark_results

\* the model ids of a list for which the registry resolves a connector
Resolved(model_ids) ==
    {m \in Range(model_ids) : get_model_connector(models, m) # NoneRec}

\* the model ids listed in any ranking of a summary
RankedIds(summary) ==
    UNION {{summary.rankings[k][i].model_id : i \in 1..Len(summary.rankings[k])} :
              k \in DOMAIN summary.rankings}

\* the connector call that produced the i-th prompt result of the model a
\* thread is evaluating
CallFor(t, i) ==
    frame[t].calls[Len(frame[t].calls) - Len(frame[t].prompt_results) + i]

\* a ranking list is in descending order of score
Descending(r) ==
    \A i, j \in 1..Len(r) : i < j => ~RLt(r[i].score, r[j].score)

\* a ranking list names each of ids exactly once
ListsOnce(r, ids) ==
    /\ Len(r) = Len(ids)
    /\ {r[i].model_id : i \in 1..Len(r)} = Range(ids)

\* the first position of x in the list s
FirstIndex(s, x) == CHOOSE i \in 1..Len(s) : s[i] = x /\ \A j \in 1..(i - 1) : s[j] # x

\* ------------------------------------------------------------------ claims
\* C1: the results of a run have an entry for exactly the model ids of
\* model_ids that the registry resolves; an unresolved id has no entry in
\* results and is in no ranking list, and looking it up never ends the call
\* (only a call of a resolved model's connector can).
C1_UnresolvedSkipped ==
    \A t \in Threads :
        /\ Started(t) =>
              DOMAIN Run(t).results.data \subseteq Resolved(Run(t).model_ids)
        /\ pc[t] = "done" =>
              /\ DOMAIN ret[t].results.data = Resolved(ret[t].model_ids)
              /\ Range(ret[t].results.order) = Resolved(ret[t].model_ids)
              /\ "rankings" \in DOMAIN ret[t].summary
              /\ RankedIds(ret[t].summary) \subseteq Resolved(ret[t].model_ids)
        /\ pc[t] = "raised" =>
              frame[t].calls[Len(frame[t].calls)].model_id
                  \in Resolved(Run(t).model_ids)

C1_Witness ==
    \E t \in Threads :
        /\ pc[t] = "done"
        /\ Resolved(ret[t].model_ids) # {}
        /\ Range(ret[t].model_ids) \ Resolved(ret[t].model_ids) # {}
        /\ ret[t].prompts # <<>>
        /\ DOMAIN ret[t].results.data = Resolved(ret[t].model_ids)

\* C2 as stated: a generation that returned success=false is recorded as a
\* prompt result with success=false and the error, and with an empty metrics
\* mapping.
C2_FailedMetricsEmpty ==
    \A t \in Threads :
        pc[t] = "prompts" =>
            \A i \in 1..Len(frame[t].prompt_results) :
                LET c == CallFor(t, i).response_data
                    pr == frame[t].prompt_results[i]
                IN  ~c.success =>
                        /\ pr.success = FALSE
                        /\ pr.error = c.error
                        /\ DOMAIN pr.metrics = {}

\* C2 as amended: a generation that returned success=false is recorded as a
\* prompt result with success=false and the error, and its metrics mapping
\* has an entry for every requested metric among the four known ones, as it
\* has for a successful generation; every model in results has a prompt
\* result for every prompt.
C2_FailureRecorded ==
    \A t \in Threads :
        /\ pc[t] = "prompts" =>
              \A i \in 1..Len(frame[t].prompt_results) :
                  LET c == CallFor(t, i).response_data
                      pr == frame[t].prompt_results[i]
                  IN  ~c.success =>
                          /\ pr.success = FALSE
                          /\ pr.error = c.error
                          /\ pr.prompt = Run(t).prompts[i]
                          /\ DOMAIN pr.metrics =
                                 Range(Run(t).metrics) \cap KnownMetrics
        /\ Started(t) =>
              \A m \in DOMAIN Run(t).results.data :
                  Len(Run(t).results.data[m].prompt_results) = Len(Run(t).prompts)

C2_Witness ==
    \E t \in Threads :
        /\ pc[t] = "prompts"
        /\ \E i \in 1..Len(frame[t].prompt_results) :
              /\ ~CallFor(t, i).response_data.success
              /\ ~frame[t].prompt_results[i].success
              /\ "latency" \in DOMAIN frame[t].prompt_results[i].metrics

\* C3: in the aggregated_metrics of every model, the count of a requested
\* metric is the number of the model's prompt results with success=true that
\* carry the metric, its min and max are scores of such results, and a metric
\* with no such result has no entry.
C3_CountIsSucceeded ==
    \A t \in Threads :
        Started(t) =>
            \A m \in DOMAIN Run(t).results.data :
                LET prs == Run(t).results.data[m].prompt_results
                    agg == Run(t).results.data[m].aggregated_metrics
                IN  \A metric \in Range(Run(t).metrics) :
                        LET succ == {i \in 1..Len(prs) :
                                        prs[i].success
                                        /\ metric \in DOMAIN prs[i].metrics}
                            succScores == {prs[i].metrics[metric].score : i \in succ}
                        IN  IF succ = {} THEN metric \notin DOMAIN agg
                            ELSE /\ metric \in DOMAIN agg
                                 /\ agg[metric].count = Cardinality(succ)
                                 /\ agg[metric].min_score \in succScores
                                 /\ agg[metric].max_score \in succScores

C3_Witness ==
    \E t \in Threads :
        /\ Started(t)
        /\ \E m \in DOMAIN Run(t).results.data :
              LET prs == Run(t).results.data[m].prompt_results
                  agg == Run(t).results.data[m].aggregated_metrics
              IN  /\ Len(prs) = 2
                  /\ \E i \in 1..2 : ~prs[i].success /\ "latency" \in DOMAIN prs[i].metrics
                  /\ "latency" \in DOMAIN agg
                  /\ agg["latency"].count = 1

C5_MetricRankingListsAll ==
    \A t \in Threads :
        (pc[t] = "done" /\ ret[t].results.order # <<>>) =>
            \A metric \in Range(ret[t].metrics) :
                /\ metric \in DOMAIN ret[t].summary.rankings
                /\ LET r == ret[t].summary.rankings[metric]
                   IN  /\ ListsOnce(r, ret[t].results.order)
                       /\ Descending(r)
                       /\ \A i \in 1..Len(r) :
                             LET agg == ret[t].results.data[r[i].model_id]
                                           .aggregated_metrics
                             IN  r[i].score =
                                   IF metric \in DOMAIN agg
                                       THEN agg[metric].average_score
                                       ELSE Zero

C5_Witness ==
    \E t \in Threads :
        /\ pc[t] = "done"
        /\ "latency" \in DOMAIN ret[t].summary.rankings
        /\ LET r == ret[t].summary.rankings["latency"]
           IN  /\ Len(r) = 2
               /\ r[1].model_id = ret[t].results.order[2]
               /\ RLt(Zero, r[1].score)
               /\ r[2].score = Zero
               /\ "latency" \notin
                     DOMAIN ret[t].results.data[r[2].model_id].aggregated_metrics

\* C6: best_performers[metric] is the model id of the first entry of
\* rankings[metric], for exactly the requested metrics whose ranking is not
\* empty; best_performers has no other key.
C6_BestPerformerIsTop ==
    \A t \in Threads :
        pc[t] = "done" =>
            LET summary == ret[t].summary
            IN  /\ DOMAIN summary.best_performers =
                      {m \in Range(ret[t].metrics) :
                          /\ m \in DOMAIN summary.rankings
                          /\ summary.rankings[m] # <<>>}
                /\ \A m \in DOMAIN summary.best_performers :
                      summary.best_performers[m] = summary.rankings[m][1].model_id

C6_Witness ==
    \E t \in Threads :
        /\ pc[t] = "done"
        /\ "cost" \in DOMAIN ret[t].summary.best_performers
        /\ Len(ret[t].summary.rankings["cost"]) = 2
        /\ ret[t].summary.best_performers["cost"] = ret[t].results.order[2]
        /\ RLt(ret[t].summary.rankings["cost"][2].score,
               ret[t].summary.rankings["cost"][1].score)

\* C7: in every ranking list of a summary, two models with equal score are
\* in the order of their first occurrence in model_ids.
C7_TiesKeepInputOrder ==
    \A t \in Threads :
        pc[t] = "done" =>
            \A k \in DOMAIN ret[t].summary.rankings :
                LET r == ret[t].summary.rankings[k]
                IN  \A i, j \in 1..Len(r) :
                        (i < j /\ r[i].score = r[j].score) =>
                            FirstIndex(ret[t].model_ids, r[i].model_id)
                                < FirstIndex(ret[t].model_ids, r[j].model_id)

C7_Witness ==
    \E t \in Threads :
        /\ pc[t] = "done"
        /\ "overall" \in DOMAIN ret[t].summary.rankings
        /\ LET r == ret[t].summary.rankings["overall"]
           IN  /\ Len(r) = 2
               /\ r[1].score = r[2].score
               /\ RLt(Zero, r[1].score)
               /\ r[1].model_id = "mock_test"
               /\ ret[t].model_ids = <<"mock_test", "anthropic_claude-2.1">>

\* C8: a connector call that raises does not end run_benchmark with the
\* exception: the run goes on.
C8_ExceptionContained ==
    \A t \in Threads :
        Started(t) =>
            \A i \in 1..Len(frame[t].calls) :
                frame[t].calls[i].response_data = Raised => pc[t] # "raised"

\* a run is fully populated: a results entry for each resolved model with a
\* prompt result for every prompt and its aggregate, and the computed summary
FullyPopulated(run) ==
    /\ DOMAIN run.results.data = Resolved(run.model_ids)
    /\ \A m \in DOMAIN run.results.data :
          /\ Len(run.results.data[m].prompt_results) = Len(run.prompts)
          /\ "aggregated_metrics" \in DOMAIN run.results.data[m]
    /\ DOMAIN run.summary = {"rankings", "best_performers", "metric_averages"}
    /\ run.summary = calculate_summary(run.results, run.metrics)

\* C9: whatever the interleaving of run_benchmark and get_results calls,
\* every run in the store, and every run get_results hands out, is fully
\* populated, and the run of a call in progress or ended by an exception is
\* not in the store.
C9_StoredRunsComplete ==
    /\ \A id \in DOMAIN results_store :
          /\ results_store[id].id = id
          /\ FullyPopulated(results_store[id])
    /\ \A t \in Threads :
          pc[t] \in {"models", "prompts", "raised"} =>
              Run(t).id \notin DOMAIN results_store
    /\ (lastGet # NoneRec /\ lastGet.result # NoneRec) =>
          FullyPopulated(lastGet.result)

C9_Witness ==
    \E t1, t2 \in Threads :
        /\ pc[t1] = "done"
        /\ ret[t1].id \in DOMAIN results_store
        /\ pc[t2] = "prompts"
        /\ Len(frame[t2].prompt_results) = 1
        /\ Run(t2).id < ret[t1].id
        /\ lastGet = [benchmark_id |-> Run(t2).id, result |-> NoneRec]

\* C10: the store only grows: a step never removes or changes an entry; a
\* run_benchmark call that returns adds exactly one entry, under an id that
\* was not in the store, holding the run it returns; nothing else changes the
\* store; the run a call returned stays in the store under its id; and
\* get_results returns what the store holds under the id, which is None for
\* an id that was never issued.
C10_AppendOnly ==
    [][ /\ \A id \in DOMAIN results_store :
              /\ id \in DOMAIN results_store'
              /\ results_store'[id] = results_store[id]
        /\ \A t \in Threads :
              (pc[t] # "done" /\ pc'[t] = "done") =>
                  /\ ret'[t].id \notin DOMAIN results_store
                  /\ DOMAIN results_store' = DOMAIN results_store \cup {ret'[t].id}
                  /\ results_store'[ret'[t].id] = ret'[t]
        /\ results_store' # results_store =>
              \E t \in Threads : pc[t] # "done" /\ pc'[t] = "done"
        /\ \A t \in Threads :
              pc[t] = "done" =>
                  /\ ret[t].id \in DOMAIN results_store'
                  /\ results_store'[ret[t].id] = ret[t]
        /\ lastGet' # lastGet =>
              /\ lastGet'.result =
                     Get(results_store, lastGet'.benchmark_id, NoneRec)
              /\ lastGet'.benchmark_id > clock => lastGet'.result = NoneRec
      ]_vars

C10_Witness ==
    /\ Cardinality(DOMAIN results_store) = 2
    /\ lastGet # NoneRec
    /\ lastGet.benchmark_id = 1
    /\ lastGet.result # NoneRec
    /\ results_store[1] = lastGet.result
    /\ \E t \in Threads : pc[t] = "done" /\ ret[t] = lastGet.result

\* C11: a step by which a caller changes the run it received from
\* run_benchmark, or the prompts or model_ids list it passed, changes nothing
\* that get_results returns: every stored run stays as it was.
C11_CallerCannotChangeStore ==
    [][ (\E t \in Threads :
            pc[t] = "done" /\ pc'[t] = "done" /\ ret'[t] # ret[t]) =>
        \A id \in DOMAIN results_store :
            Get(results_store', id, NoneRec) = results_store[id]
      ]_vars

\* C12: for every model in results, prompt_results has one entry per input
\* prompt, the k-th entry (counting from 0) has prompt_index k, the text of
\* prompts[k] and the response of the k-th connector call made for the model;
\* the same holds of the entries collected so far for the model in progress.
C12_PromptOrderKept ==
    \A t \in Threads :
        /\ Started(t) =>
              \A m \in DOMAIN Run(t).results.data :
                  LET prs == Run(t).results.data[m].prompt_results
                  IN  /\ Len(prs) = Len(Run(t).prompts)
                      /\ \A k \in 1..Len(prs) :
                            /\ prs[k].prompt_index = k - 1
                            /\ prs[k].prompt = Run(t).prompts[k]
        /\ pc[t] = "prompts" =>
              LET prs == frame[t].prompt_results
              IN  /\ Len(prs) <= Len(Run(t).prompts)
                  /\ \A k \in 1..Len(prs) :
                        /\ prs[k].prompt_index = k - 1
                        /\ prs[k].prompt = Run(t).prompts[k]
                        /\ CallFor(t, k).prompt_index = k - 1
                        /\ prs[k].success = CallFor(t, k).response_data.success
                        /\ prs[k].response = CallFor(t, k).response_data.response

C12_Witness ==
    \E t \in Threads :
        /\ pc[t] = "done"
        /\ Len(ret[t].prompts) = 2
        /\ \E m \in DOMAIN ret[t].results.data :
              LET prs == ret[t].results.data[m].prompt_results
              IN  /\ Len(prs) = 2
                  /\ prs[1].prompt = PromptPool[1] /\ ~prs[1].success
                  /\ prs[2].prompt = PromptPool[2] /\ prs[2].success
                  /\ prs[2].prompt_index = 1

\* a connector call that ended in a failure: it returned success=false or it
\* raised
FailedCall(call) ==
    \/ call.response_data = Raised
    \/ ~Get(call.response_data, "success", FALSE)

\* C13: the failure of one (model, prompt) generation stays with its pair:
\* every recorded prompt result is what its own connector call gives, the
\* aggregate of every model in results is that of its own prompt results,
\* and a call that failed never keeps the rest of the run from being
\* evaluated (the run_benchmark call is not ended by it).
C13_FailureIsolated ==
    \A t \in Threads :
        Started(t) =>
            /\ pc[t] = "prompts" =>
                  \A i \in 1..Len(frame[t].prompt_results) :
                      frame[t].prompt_results[i].metrics =
                          evaluate_single_prompt(
                              CallFor(t, i).response_data, Run(t).prompts[i],
                              Run(t).metrics, frame[t].model_info).metrics
            /\ \A m \in DOMAIN Run(t).results.data :
                  Run(t).results.data[m].aggregated_metrics =
                      aggregate_prompt_results(
                          Run(t).results.data[m].prompt_results, Run(t).metrics)
            /\ (\E i \in 1..Len(frame[t].calls) : FailedCall(frame[t].calls[i])) =>
                  pc[t] \in {"models", "prompts", "done"}

\* a step of the run_benchmark call of thread t
ThreadStep(t) ==
    \/ LookupModel(t)
    \/ \E response_data \in
            UNION {Responses(frame[t].connector, p) : p \in Range(PromptPool)} :
            EvaluatePromptReturns(t, response_data)
    \/ EvaluatePromptRaises(t)
    \/ EvaluatePromptNeverReturns(t)
    \/ FinishModel(t)
    \/ Finish(t)

\* C14: a run_benchmark call is never left waiting without end for a
\* connector call that does not return: while it waits, a step that records
\* the pair as failed and carries the run on is open to it, so that the call
\* can still end.
C14_WaitingCallCanEnd ==
    \A t \in Threads :
        pc[t] = "calling" => ENABLED <<ThreadStep(t)>>_vars

\* C15: of two run_benchmark calls made one after the other by a caller, with
\* the same prompts, model_ids and metrics, whose connector calls returned
\* the same responses, the summaries have the same rankings and the same
\* best_performers, whatever calls were made in between; their ids differ.
C15_SameRequestSameRanking ==
    \A i, j \in 1..Len(history) :
        LET a == history[i]
            b == history[j]
        IN  (/\ a.run # NoneRec /\ b.run # NoneRec
             /\ a.prompts = b.prompts /\ a.model_ids = b.model_ids
             /\ a.metrics = b.metrics /\ a.calls = b.calls) =>
                /\ a.run.summary.rankings = b.run.summary.rankings
                /\ a.run.summary.best_performers = b.run.summary.best_performers
                /\ a.run.results = b.run.results
                /\ i # j => a.run.id # b.run.id

C15_Witness ==
    /\ Len(history) = 3
    /\ history[1].run # NoneRec /\ history[3].run # NoneRec
    /\ history[1].model_ids = history[3].model_ids
    /\ history[1].calls = history[3].calls
    /\ history[2].model_ids # history[1].model_ids
    /\ LET overall == history[3].run.summary.rankings["overall"]
       IN  /\ Len(overall) = 2
           /\ overall[1].score = overall[2].score
           /\ overall[1].model_id = history[3].model_ids[1]

\* C16: the rankings get_rankings returns list the models of every run that
\* was passed to update_rankings before the call.
C16_RankingsReflectUpdate ==
    lastRankings # NoneRec =>
        \A u \in lastRankings.updates :
            \A m \in Range(u.models) :
                \E i \in 1..Len(lastRankings.result.rankings) :
                    lastRankings.result.rankings[i].model_id = m

\* C17 as stated: a run_benchmark call with an empty prompts list or an empty
\* model_ids list is not ended by an error, and the run it returns and stores
\* has an empty results mapping.
C17_EmptyInputsEmptyResults ==
    \A t \in Threads :
        (Started(t) /\ (Run(t).prompts = <<>> \/ Run(t).model_ids = <<>>)) =>
            /\ pc[t] # "raised"
            /\ pc[t] = "done" =>
                  /\ ret[t].id \in DOMAIN results_store
                  /\ results_store[ret[t].id] = ret[t]
                  /\ DOMAIN ret[t].results.data = {}

\* C17 as amended: a run_benchmark call with an empty prompts list or an
\* empty model_ids list makes no connector call, is not ended by an error,
\* and stores the run it returns; with an empty model_ids list the results
\* mapping is empty; with an empty prompts list results has an entry for
\* every model id the registry resolves, each with no prompt results and no
\* aggregated metrics.
C17_EmptyInputsGiveRun ==
    \A t \in Threads :
        (Started(t) /\ (Run(t).prompts = <<>> \/ Run(t).model_ids = <<>>)) =>
            /\ pc[t] \in {"models", "prompts", "done"}
            /\ frame[t].calls = <<>>
            /\ pc[t] = "done" =>
                  /\ ret[t].id \in DOMAIN results_store
                  /\ results_store[ret[t].id] = ret[t]
                  /\ DOMAIN ret[t].results.data = Resolved(ret[t].model_ids)
                  /\ Range(ret[t].results.order) = Resolved(ret[t].model_ids)
                  /\ \A m \in DOMAIN ret[t].results.data :
                        ret[t].prompts = <<>> =>
                            /\ ret[t].results.data[m].prompt_results = <<>>
                            /\ ret[t].results.data[m].aggregated_metrics = EmptyDict

C17_Witness ==
    \E t \in Threads :
        /\ pc[t] = "done"
        /\ ret[t].prompts = <<>>
        /\ Len(ret[t].results.order) = 2
        /\ results_store[ret[t].id] = ret[t]

\* C18: a run_benchmark call whose metrics name anything but latency, cost,
\* quality and context_utilization is refused at once: no such call gets as
\* far as looking up a model, and no run with such a metric is returned or
\* stored.
C18_UnknownMetricRejected ==
    /\ \A t \in Threads :
          Started(t) => Range(Run(t).metrics) \subseteq KnownMetrics
    /\ \A id \in DOMAIN results_store :
          Range(results_store[id].metrics) \subseteq KnownMetrics

\* a registry entry is enabled and has credentials
EnabledWithKey(model_id) ==
    /\ model_id \in DOMAIN models
    /\ Get(models[model_id], "api_key", "") # ""
    /\ Get(models[model_id], "enabled", TRUE)

\* C19: the registry resolves a connector only for a model id that is known,
\* enabled and has an api key: the model a run_benchmark call is evaluating,
\* and every model in its results, is such a model.
C19_ResolvesOnlyEnabledWithKey ==
    \A t \in Threads :
        Started(t) =>
            /\ pc[t] = "prompts" =>
                  EnabledWithKey(Run(t).model_ids[frame[t].model_idx])
            /\ \A m \in DOMAIN Run(t).results.data : EnabledWithKey(m)

\* the fixed weight of a metric in the overall score
WeightOf(metric) ==
    CASE metric = "latency" -> R(3, 10)
      [] metric = "cost" -> R(2, 10)
      [] metric = "quality" -> R(4, 10)
      [] metric = "context_utilization" -> R(1, 10)

\* C20: in the aggregated_metrics of every model, overall_score is present
\* exactly when some requested metric has an aggregate; the metrics with an
\* aggregate are requested ones among the four known; and overall_score times
\* the sum of their weights is the sum of weight times average_score over
\* them.
C20_OverallIsWeightedMean ==
    \A t \in Threads :
        Started(t) =>
            \A m \in DOMAIN Run(t).results.data :
                LET agg == Run(t).results.data[m].aggregated_metrics
                    have == DOMAIN agg \ {"overall_score"}
                IN  /\ have \subseteq Range(Run(t).metrics) \cap KnownMetrics
                    /\ "overall_score" \in DOMAIN agg <=> have # {}
                    /\ have # {} =>
                          RMul(agg["overall_score"],
                               RSumOver(have, [x \in have |-> WeightOf(x)]))
                          = RSumOver(have,
                                [x \in have |->
                                    RMul(WeightOf(x), agg[x].average_score)])

C20_Witness ==
    \E t \in Threads :
        /\ Started(t)
        /\ \E m \in DOMAIN Run(t).results.data :
              LET agg == Run(t).results.data[m].aggregated_metrics
              IN  /\ DOMAIN agg = {"latency", "cost", "quality", "overall_score"}
                  /\ agg["latency"].count = 1
                  /\ Len(Run(t).results.data[m].prompt_results) = 2
                  /\ agg["quality"].average_score # agg["latency"].average_score
                  /\ RMul(RInt(3), agg["overall_score"]) #
                        RAdd(agg["latency"].average_score,
                             RAdd(agg["cost"].average_score,
                                  agg["quality"].average_score))

\* every score, where x is a number
InRange(x) == RLe(Zero, x) /\ RLe(x, Hundred)

\* the scores of a run: of every prompt result, of every aggregate, and of
\* every ranking entry
ScoresOf(run) ==
    UNION {UNION {{pr.metrics[k].score : k \in DOMAIN pr.metrics} :
                     pr \in Range(run.results.data[m].prompt_results)} :
              m \in DOMAIN run.results.data}
    \cup UNION {LET agg == run.results.data[m].aggregated_metrics
                IN  UNION {{agg[k].average_score, agg[k].min_score, agg[k].max_score} :
                              k \in DOMAIN agg \ {"overall_score"}}
                    \cup {agg[k] : k \in DOMAIN agg \cap {"overall_score"}} :
                   m \in DOMAIN run.results.data}
    \cup (IF "rankings" \in DOMAIN run.summary
              THEN UNION {{run.summary.rankings[k][i].score :
                              i \in 1..Len(run.summary.rankings[k])} :
                             k \in DOMAIN run.summary.rankings}
          ELSE {})

\* C21: every score of every run being built, returned or stored (the score
\* of a prompt under a metric, the average, minimum and maximum of an
\* aggregate, the overall score, the score of a ranking entry) is at least 0
\* and at most 100, whatever latency, token count and price the connector
\* reports.
C21_ScoresWithinRange ==
    /\ \A t \in Threads :
          /\ Started(t) => \A x \in ScoresOf(Run(t)) : InRange(x)
          /\ ret[t] # NoneRec => \A x \in ScoresOf(ret[t]) : InRange(x)
    /\ \A id \in DOMAIN results_store :
          \A x \in ScoresOf(results_store[id]) : InRange(x)

\* a finished run in which the skewed connector reported a negative latency,
\* a negative token count and a negative price, and which scored and ranked it
C21_Witness ==
    /\ pc[1] = "done"
    /\ "skewed_test" \in DOMAIN ret[1].results.data
    /\ "overall_score" \in DOMAIN ret[1].results.data["skewed_test"].aggregated_metrics
    /\ \E i \in 1..Len(frame[1].calls) :
          LET c == frame[1].calls[i]
          IN  /\ c.model_id = "skewed_test"
              /\ c.response_data # Raised
              /\ c.response_data.success
              /\ RLt(c.response_data.latency, Zero)
              /\ c.response_data.tokens_used < 0
    /\ \E pr \in Range(ret[1].results.data["skewed_test"].prompt_results) :
          /\ "cost" \in DOMAIN pr.metrics
          /\ RLt(pr.metrics["cost"].raw_value, Zero)
    /\ Len(ret[1].summary.rankings["overall"]) = 2

\* the calls in the log of the calculator
Calls(op) == {c \in Range(calc) : c.op = op}

\* C22: every call of a MetricsCalculator function returns a number and
\* raises nothing, whatever numbers it is given: negative ones, a max_context
\* of 0, a max_cost of 0, weights that sum to 0.
C22_CalculatorTotal ==
    \A c \in Range(calc) : c.result # ZeroDivisionError

\* C23: calculate_latency_score gives 100 up to 1.0, 0 from 10.0 on and
\* 100 * (10 - latency) / 9 between them, and of two latencies the larger
\* never gets the higher score.
C23_LatencyScoreShape ==
    /\ \A c \in Calls("latency") :
          /\ RLe(c.latency, RInt(1)) => c.result = Hundred
          /\ RLe(RInt(10), c.latency) => c.result = Zero
          /\ RLt(RInt(1), c.latency) /\ RLt(c.latency, RInt(10)) =>
                RMul(c.result, RInt(9))
                = RMul(Hundred, RSub(RInt(10), c.latency))
    /\ \A c, d \in Calls("latency") :
          RLe(c.latency, d.latency) => RLe(d.result, c.result)

\* a call at 10.0 that gave 0 after a call at 5.5 that gave 50
C23_Witness ==
    /\ Len(calc) = 2
    /\ calc[1].op = "latency" /\ calc[1].latency = RInt(10)
    /\ calc[1].result = Zero
    /\ calc[2].op = "latency" /\ calc[2].latency = R(11, 2)
    /\ calc[2].result = RInt(50)

QualityPoints(response) ==
    LET words == WordCount(response)
    IN  50
        + (IF 10 <= words /\ words <= 500 THEN 20
           ELSE IF (5 <= words /\ words < 10) \/ (500 < words /\ words <= 1000)
               THEN 10
           ELSE 0)
        + (IF SplitDotCount(response) > 1 THEN 10 ELSE 0)
        + (IF \E c \in {".", "!", "?"} : StripEndsWith(response, c) THEN 10
           ELSE 0)
        - (IF Contains(response, "I apologize") \/ Contains(response, "I cannot")
               THEN 10
           ELSE 0)

\* a long answer with a full stop inside and a closing mark at its end
WellPunctuated(response) ==
    /\ 10 <= WordCount(response)
    /\ SplitDotCount(response) > 1
    /\ \E c \in {".", "!", "?"} : StripEndsWith(response, c)

\* C25: calculate_quality_score gives 0 for an empty response whatever the
\* reference; without a reference a response that is not empty gets 50, plus
\* 20 or 10 for its word count, plus 10 for a full stop, plus 10 for a closing
\* mark, minus 10 for a refusal phrase; and a long, well punctuated answer
\* gets strictly more than the refusal "I apologize but I cannot".
C25_QualityScoreShape ==
    /\ \A c \in Calls("quality") :
          /\ c.response \in {"", NoneStr} => c.result = Zero
          /\ c.response \notin {"", NoneStr} /\ c.reference = NoneStr =>
                c.result = RInt(QualityPoints(c.response))
          /\ c.response = Refusal /\ c.reference = NoneStr =>
                c.result = RInt(50)
    /\ \A c, d \in Calls("quality") :
          /\ c.reference = NoneStr /\ d.reference = NoneStr
          /\ c.response \notin {"", NoneStr} /\ WellPunctuated(c.response)
          /\ d.response = Refusal
          => RLt(d.result, c.result)

\* the two calls of test_quality_score: the refusal, then the good response
C25_Witness ==
    /\ Len(calc) = 2
    /\ calc[2].op = "quality" /\ calc[2].response = Refusal
    /\ calc[2].reference = NoneStr /\ calc[2].result = RInt(50)
    /\ calc[1].op = "quality" /\ calc[1].response = GoodResponse
    /\ calc[1].reference = NoneStr /\ calc[1].result = RInt(90)

\* an empty response scored against a reference
C25_WitnessEmpty ==
    \E c \in Calls("quality") :
        c.response = "" /\ c.reference \notin {"", NoneStr} /\ c.result = Zero

WeightInUse(weights, metric) ==
    IF weights = NoneRec THEN Get(DefaultWeights, metric, R(1, 10))
    ELSE Get(weights, metric, R(1, 10))

C28_AddModelRegistersOrRejects ==
    lastAdd # NoneRec =>
        IF "name" \in DOMAIN lastAdd.model_config
            THEN LET model_id == "custom_" \o lastAdd.model_config.name
                 IN  /\ lastAdd.result = [success |-> TRUE, model_id |-> model_id]
                     /\ model_id \in DOMAIN models
                     /\ models[model_id].enabled
                     /\ models[model_id].model_name = lastAdd.model_config.name
                     /\ DOMAIN models = DOMAIN lastAdd.models_before \cup {model_id}
                     /\ \A other \in DOMAIN lastAdd.models_before \ {model_id} :
                           models[other] = lastAdd.models_before[other]
        ELSE /\ lastAdd.result.success = FALSE
             /\ "error" \in DOMAIN lastAdd.result
             /\ "model_id" \notin DOMAIN lastAdd.result
             /\ models = lastAdd.models_before

\* the config of test_add_custom_model was added to a registry that held
\* another custom model, and both are registered
C28_Witness ==
    /\ lastAdd # NoneRec
    /\ lastAdd.model_config =
          [name |-> "test-model", api_key |-> "test-key",
           endpoint |-> "https://test.com"]
    /\ lastAdd.result = [success |-> TRUE, model_id |-> "custom_test-model"]
    /\ "custom_fast" \in DOMAIN lastAdd.models_before
    /\ "custom_fast" \in DOMAIN models
    /\ "custom_test-model" \notin DOMAIN lastAdd.models_before

\* a config without a name was rejected after a model had been added
C28_WitnessRejected ==
    /\ lastAdd # NoneRec
    /\ "name" \notin DOMAIN lastAdd.model_config
    /\ lastAdd.result.success = FALSE
    /\ "custom_fast" \in DOMAIN models

\* the connector calls a run_benchmark call is to make: for each occurrence
\* of a resolved model in model_ids, in order, one for each of n prompts, in
\* order
RECURSIVE ExpectedCalls(_, _)
ExpectedCalls(model_ids, n) ==
    IF model_ids = <<>> THEN <<>>
    ELSE (IF get_model_connector(models, Head(model_ids)) # NoneRec
              THEN [k \in 1..n |->
                       [model_id |-> Head(model_ids), prompt_index |-> k - 1]]
          ELSE <<>>)
         \o ExpectedCalls(Tail(model_ids), n)

\* the connector calls a thread has made, with what they returned left out
MadeCalls(t) ==
    [i \in 1..Len(frame[t].calls) |->
        [model_id |-> frame[t].calls[i].model_id,
         prompt_index |-> frame[t].calls[i].prompt_index]]

\* C29: the connector calls of a run_benchmark call are at any moment the
\* first ones of the list of (occurrence of a resolved model, prompt) pairs,
\* models in the order of model_ids and prompts in their order, each pair
\* once and no other call; and the call does not end before all of them were
\* made, whatever became of the earlier ones.
C29_OneCallPerPairInOrder ==
    \A t \in Threads :
        Started(t) =>
            LET expected == ExpectedCalls(Run(t).model_ids, Len(Run(t).prompts))
                made == MadeCalls(t)
            IN  /\ Len(made) <= Len(expected)
                /\ made = SubSeq(expected, 1, Len(made))
                /\ pc[t] \in {"done", "raised"} => made = expected

\* C30: results holds one entry for each model id however often model_ids
\* names it; when the call has ended, the entry holds the prompt results of
\* the calls made for the last occurrence of the id; and every ranking list
\* names every model of results exactly once.
C30_DuplicateIdsOneEntry ==
    \A t \in Threads :
        Started(t) =>
            LET run == Run(t)
                n == Len(run.prompts)
            IN  /\ Cardinality(Range(run.results.order)) = Len(run.results.order)
                /\ Range(run.results.order) = DOMAIN run.results.data
                /\ pc[t] = "done" =>
                      /\ \A m \in DOMAIN run.results.data :
                            LET mine == Filter(frame[t].calls,
                                           {c \in Range(frame[t].calls) :
                                               c.model_id = m})
                                last == SubSeq(mine, Len(mine) - n + 1, Len(mine))
                                prs == run.results.data[m].prompt_results
                            IN  /\ Len(prs) = n
                                /\ \A k \in 1..n :
                                      /\ prs[k].success
                                         = Get(last[k].response_data, "success", FALSE)
                                      /\ prs[k].response
                                         = Get(last[k].response_data, "response", "")
                                      /\ prs[k].prompt_index = last[k].prompt_index
                      /\ \A k \in DOMAIN run.summary.rankings :
                            ListsOnce(run.summary.rankings[k], run.results.order)

\* a model named twice failed at its first occurrence and succeeded at its
\* second: its one entry holds the success, and the overall ranking names it
\* once
C30_Witness ==
    /\ pc[1] = "done"
    /\ ret[1].model_ids = <<"mock_test", "mock_test">>
    /\ Len(ret[1].prompts) = 1
    /\ Len(frame[1].calls) = 2
    /\ ~frame[1].calls[1].response_data.success
    /\ frame[1].calls[2].response_data.success
    /\ ret[1].results.order = <<"mock_test">>
    /\ ret[1].results.data["mock_test"].prompt_results[1].success
    /\ Len(ret[1].summary.rankings["overall"]) = 1

====
